---- MODULE Spec2Model ----
(***************************************************************************)
(* Model of the PHI protection code of medical_scribe:                     *)
(*   security/encryption.py  PHIEncryption, FieldLevelEncryption           *)
(*   security/audit.py       AuditEvent, AuditLogger                       *)
(*                                                                         *)
(* Cryptography is modelled symbolically: os.urandom is a source of fresh  *)
(* values (a repeat of a 96-bit or 256-bit draw is outside the model),     *)
(* AES-GCM opens a sealed value exactly when key, nonce and associated     *)
(* data are the ones it was sealed with, and base64 / UTF-8 are free       *)
(* constructors with their decoders as the inverses.                       *)
(***************************************************************************)
EXTENDS Integers, Sequences, FiniteSets, TLC

VARIABLES
    \* the engine (PHIEncryption) and its environment
    key_vault_url,   \* PHIEncryption.key_vault_url: None_ or a URL
    key_cache,       \* PHIEncryption._key_cache: None_ or key bytes
    vault_secret,    \* the secret store's value for encryption_key_name, None_ if missing
    urandom_count,   \* number of values os.urandom has handed out in this process
    calls,           \* number of calls begun
    \* history of the engine
    issued,          \* the successful encrypt() calls: [env, pt, ad, key, nonce]
    encrypts,        \* number of successful encrypt() calls
    resolved,        \* the keys _get_encryption_key has returned
    \* concurrent callers of encrypt()/decrypt()
    pc,              \* per caller: position inside encrypt()/decrypt()
    call,            \* per caller: the call in progress [op, arg, ad]
    key,             \* per caller: the local variable key
    result,          \* per caller: what the call gave its caller
    fetches,         \* per caller: get_secret attempts made by the call in progress
    cache_at_start,  \* per caller: _key_cache as it was when the call began
    \* a single caller using the engine call after call
    last,            \* the call that completed last: [op, arg, ad, res, fetches]
    \* a caller of FieldLevelEncryption
    fl_stage,        \* "start", "encrypted", "moved", "decrypted" or "failed"
    fl_call,         \* the helper call that completed last: [op, data, fields] as passed
    fl_data,         \* the dict the caller passed, as it is after the call
    fl_out,          \* what the helper call gave its caller
    fl_at,           \* the field whose encrypt()/decrypt() raised, "" if none
    fl_plain,        \* the [data, fields] encrypt_fields was called with
    fl_stored,       \* the record encrypt_fields returned, as stored since
    fl_moved,        \* [from, to]: the envelope of field from was put under field to
    fl_from,         \* the stage decrypt_fields was called in
    \* the audit logger (AuditLogger) and its environment
    local_backup,    \* AuditLogger.local_backup
    container_client,\* AuditLogger.container_client: None_ or the container's client
    blobs,           \* the container: the objects [name, content, metadata] it holds
    sink,            \* the local log pipeline: the audit_event records it has received
    lg_calls,        \* number of logger calls begun
    \* concurrent callers of the audit logger
    lg_pc,           \* per caller: position inside log_event()
    lg_entry,        \* per caller: the method called and its arguments
    lg_event,        \* per caller: the AuditEvent being logged
    lg_json,         \* per caller: the local variable event_json
    lg_exc,          \* per caller: the exception in flight, None_ if none
    lg_result,       \* per caller: "returned" or "raised" once the call is over
    lg_trace,        \* per caller: what the call did to sink and container, in order
    lg_found,        \* per caller: the container as upload_blob found it
    lg_made,         \* per caller: the objects the call added to the container
    \* the process-wide audit logger handle
    _audit_logger,   \* the module global _audit_logger: None_ or an AuditLogger
    loggers_made,    \* number of AuditLogger objects constructed in this process
    gl_last,         \* the handle call that completed last: [op, url, res, before], and
                     \* the logger the latest initialize_audit_logger made
    \* the authentication endpoints, their table and their session store
    users,           \* the users table: username -> row
    sessions,        \* the module-level dict sessions: token -> [user_id, expires_at]
    utcnow,          \* datetime.utcnow(), in minutes
    tokens_made,     \* number of values the secrets module has handed out
    au_calls,        \* number of requests served
    au_last,         \* the request served last and the state it found
    au_issued,       \* the tokens signup and login have put in sessions
    au_removed,      \* the tokens logout and /me have deleted from sessions
    au_wrong         \* per username: wrong-password logins since the last successful one

engine_vars == <<key_vault_url, key_cache, vault_secret, urandom_count, calls>>
history_vars == <<issued, encrypts, resolved>>
caller_vars == <<pc, call, key, result, fetches, cache_at_start>>

field_vars == <<fl_stage, fl_call, fl_data, fl_out, fl_at, fl_plain, fl_stored, fl_moved, fl_from>>

logger_vars == <<local_backup, container_client, blobs, sink, lg_calls>>
log_call_vars == <<lg_pc, lg_entry, lg_event, lg_json, lg_exc, lg_result, lg_trace, lg_found, lg_made>>
ledger_vars == <<logger_vars, log_call_vars>>

handle_vars == <<_audit_logger, loggers_made, gl_last>>
auth_vars == <<users, sessions, utcnow, tokens_made, au_calls, au_last, au_issued, au_removed, au_wrong>>
app_vars == <<handle_vars, auth_vars>>

vars == <<engine_vars, history_vars, caller_vars, last, field_vars, ledger_vars, app_vars>>

----------------------------------------------------------------------------
(* Bounds *)
\* concurrent callers of one engine
NumCallers == 2
\* calls begun by the concurrent callers
MaxRaceCalls == 3
\* calls made by the single caller
MaxCalls == 3
\* concurrent callers of one audit logger
NumLoggers == 2
\* calls begun by the callers of the audit logger
MaxLogCalls == 3
\* calls of the convenience constructors
MaxApiCalls == 2

(* Program constants *)
KeyLen == 32
NonceLen == 12

Callers == 1..NumCallers
Loggers == 1..NumLoggers

----------------------------------------------------------------------------
(* Python values. Every value is a record [k, v] whose kind k decides the   *)
(* shape of v.  str: "lit" (plain text) and "b64" (base64 text of bytes).   *)
(* bytes: "utf8" (encoding of a text), "rand" (os.urandom output), "cat"    *)
(* (concatenation), "gcm" (AES-GCM output), "junk" (anything else).         *)

None_ == [k |-> "none", v |-> "None"]
Lit(s) == [k |-> "lit", v |-> s]
PyInt(n) == [k |-> "int", v |-> n]
PyBool(b) == [k |-> "bool", v |-> b]

IsStr(x) == x.k \in {"lit", "b64", "hex"}

Ok(x) == [k |-> "ok", v |-> x]
Raise(e) == [k |-> "raise", v |-> e]
Pending == [k |-> "pending", v |-> "-"]

Random(n, len) == [k |-> "rand", v |-> [id |-> n, len |-> len]]

\* os.urandom(len): the count-th value drawn in this process
urandom(count, len) == Random(count + 1, len)

\* text.encode('utf-8')
Utf8Encode(text) == [k |-> "utf8", v |-> text]

\* bytes.decode('utf-8'): the text of encoded bytes; other bytes are not text
Utf8Decode(b) == IF b.k = "utf8" THEN Ok(b.v) ELSE Raise("UnicodeDecodeError")

EmptyBytes == Utf8Encode(Lit(""))

\* a + b on bytes
Concat(a, b) == [k |-> "cat", v |-> <<a, b>>]

\* len(b) > 0
NonEmptyBytes(b) ==
    CASE b.k = "utf8" -> b.v # Lit("")
      [] b.k = "rand" -> b.v.len > 0
      [] OTHER -> TRUE

\* base64.b64encode(b).decode('utf-8')
B64Encode(b) == [k |-> "b64", v |-> b]

\* base64.b64decode(s): the bytes of a base64 text; the empty text decodes to
\* no bytes; no other plain text of this model is well-formed base64
\* (binascii.Error: incorrect padding)
B64Decode(s) ==
    IF s.k = "b64" THEN Ok(s.v)
    ELSE IF s = Lit("") THEN Ok(EmptyBytes)
    ELSE Raise("binascii.Error")

\* bool(x)
Truthy(x) ==
    CASE x.k = "none" -> FALSE
      [] x.k = "lit" -> x.v # ""
      [] x.k = "b64" -> NonEmptyBytes(x.v)
      [] x.k = "int" -> x.v # 0
      [] x.k = "bool" -> x.v
      [] x.k = "chars" -> x.v # <<>>
      [] x.k = "dict" -> DOMAIN x.v # {}
      [] OTHER -> NonEmptyBytes(x)

----------------------------------------------------------------------------
(* AES-GCM of the cryptography package, symbolically *)

\* AESGCM(key) accepts 128, 192 and 256 bit keys
AESGCM(kb) == kb.k = "rand" /\ kb.v.len \in {16, 24, 32}

\* aesgcm.encrypt(nonce, data, aad): ciphertext and tag
AESGCM_encrypt(kb, nonce, data, aad) ==
    [k |-> "gcm", v |-> [key |-> kb, nonce |-> nonce, data |-> data, aad |-> aad]]

\* aesgcm.decrypt(nonce, data, aad): a nonce under 8 bytes is refused; the tag
\* verifies only under the key, nonce and associated data of the sealing
AESGCM_decrypt(kb, nonce, data, aad) ==
    IF ~NonEmptyBytes(nonce) THEN Raise("ValueError")
    ELSE IF data.k = "gcm" /\ data.v.key = kb /\ data.v.nonce = nonce /\ data.v.aad = aad
    THEN Ok(data.v.data)
    ELSE Raise("InvalidTag")

\* data[:12] and data[12:]
NonceOf(data) ==
    IF data.k = "cat" /\ data.v[1].k = "rand" /\ data.v[1].v.len = NonceLen
    THEN data.v[1]
    ELSE IF NonEmptyBytes(data) THEN [k |-> "junk", v |-> data] ELSE EmptyBytes

CiphertextOf(data) ==
    IF data.k = "cat" /\ data.v[1].k = "rand" /\ data.v[1].v.len = NonceLen
    THEN data.v[2]
    ELSE IF NonEmptyBytes(data) THEN [k |-> "junk", v |-> data] ELSE EmptyBytes

----------------------------------------------------------------------------
(* PHIEncryption.encrypt / decrypt, after the key has been resolved *)

\* associated data dropped, as a defective encrypt()/decrypt() would
AadIgnored(associated_data) == EmptyBytes

\* associated_data.encode('utf-8') if associated_data else b''
Aad(associated_data) ==
    IF Truthy(associated_data) THEN Utf8Encode(associated_data) ELSE EmptyBytes

\* encrypt(), lines 96-115, with the key resolved and the nonce drawn
encrypt(kb, nonce, plaintext, associated_data) ==
    IF ~AESGCM(kb) THEN Raise("ValueError")
    ELSE IF ~IsStr(plaintext) THEN Raise("AttributeError")
    ELSE LET aad == Aad(associated_data)
             ciphertext == AESGCM_encrypt(kb, nonce, Utf8Encode(plaintext), aad)
             encrypted_data == Concat(nonce, ciphertext)
         IN  Ok(B64Encode(encrypted_data))

\* a decrypt() that tells its caller when only the associated data are wrong
decrypt_telling(kb, encrypted_data, associated_data) ==
    IF ~AESGCM(kb) THEN Raise("ValueError")
    ELSE IF ~IsStr(encrypted_data) THEN Raise("TypeError")
    ELSE LET data == B64Decode(encrypted_data)
         IN  IF data.k = "raise" THEN data
             ELSE LET nonce == NonceOf(data.v)
                      ciphertext == CiphertextOf(data.v)
                      aad == Aad(associated_data)
                      plaintext == AESGCM_decrypt(kb, nonce, ciphertext, aad)
                  IN  IF plaintext.k = "raise"
                      THEN IF ciphertext.k = "gcm" /\ ciphertext.v.key = kb
                              /\ ciphertext.v.nonce = nonce
                           THEN Raise("ValueError")
                           ELSE plaintext
                      ELSE Utf8Decode(plaintext.v)

\* decrypt(), lines 134-154, with the key resolved
decrypt(kb, encrypted_data, associated_data) ==
    IF ~AESGCM(kb) THEN Raise("ValueError")
    ELSE IF ~IsStr(encrypted_data) THEN Raise("TypeError")
    ELSE LET data == B64Decode(encrypted_data)
         IN  IF data.k = "raise" THEN data
             ELSE LET nonce == NonceOf(data.v)
                      ciphertext == CiphertextOf(data.v)
                      aad == Aad(associated_data)
                      plaintext == AESGCM_decrypt(kb, nonce, ciphertext, aad)
                  IN  IF plaintext.k = "raise" THEN plaintext ELSE Utf8Decode(plaintext.v)

\* a nonce drawn the way a defective encrypt() would: the same for every call
fixed_nonce(count) == Random(0, NonceLen)

\* encrypt(), line 99: nonce = os.urandom(12)
fresh_nonce(count) == urandom(count, NonceLen)

\* _get_encryption_key(), line 71: return os.urandom(32)
generated_key(count) == urandom(count, KeyLen)

----------------------------------------------------------------------------
(* PHIEncryption as one caller sees it: each method from entry to return.   *)
(* up says whether the secret store answers during the call.                *)

\* _get_encryption_key() as it would be with a second attempt after a failed
\* get_secret
get_encryption_key_retry(cache, count, up) ==
    IF Truthy(cache)
    THEN [res |-> Ok(cache), cache |-> cache, count |-> count, fetches |-> 0]
    ELSE IF ~Truthy(key_vault_url)
    THEN [res |-> Ok(generated_key(count)), cache |-> cache, count |-> count + 1,
          fetches |-> 0]
    ELSE IF up /\ vault_secret # None_
    THEN LET kb == B64Decode(vault_secret).v
         IN  [res |-> Ok(kb), cache |-> kb, count |-> count, fetches |-> 1]
    ELSE [res |-> Raise("KeyUnavailable"), cache |-> cache, count |-> count, fetches |-> 2]

\* _get_encryption_key(), lines 65-81
get_encryption_key(cache, count, up) ==
    IF Truthy(cache)
    THEN [res |-> Ok(cache), cache |-> cache, count |-> count, fetches |-> 0]
    ELSE IF ~Truthy(key_vault_url)
    THEN [res |-> Ok(generated_key(count)), cache |-> cache, count |-> count + 1,
          fetches |-> 0]
    ELSE IF up /\ vault_secret # None_
    THEN LET kb == B64Decode(vault_secret).v
         IN  [res |-> Ok(kb), cache |-> kb, count |-> count, fetches |-> 1]
    ELSE [res |-> Raise("KeyUnavailable"), cache |-> cache, count |-> count, fetches |-> 1]

\* encrypt(), lines 94-119
encrypt_call(cache, count, up, plaintext, associated_data) ==
    LET g == get_encryption_key(cache, count, up)
    IN  IF g.res.k = "raise"
        THEN [res |-> g.res, cache |-> g.cache, count |-> g.count, fetches |-> g.fetches,
              keys |-> {}, nonce |-> None_]
        ELSE LET nonce == fresh_nonce(g.count)
             IN  [res |-> encrypt(g.res.v, nonce, plaintext, associated_data),
                  cache |-> g.cache, count |-> g.count + 1, fetches |-> g.fetches,
                  keys |-> {g.res.v}, nonce |-> nonce]

\* decrypt(), lines 132-158
decrypt_call(cache, count, up, encrypted_data, associated_data) ==
    LET g == get_encryption_key(cache, count, up)
    IN  IF g.res.k = "raise"
        THEN [res |-> g.res, cache |-> g.cache, count |-> g.count, fetches |-> g.fetches,
              keys |-> {}]
        ELSE [res |-> decrypt(g.res.v, encrypted_data, associated_data),
              cache |-> g.cache, count |-> g.count, fetches |-> g.fetches,
              keys |-> {g.res.v}]

----------------------------------------------------------------------------
(* Inputs *)
Plaintexts == {Lit("John Doe"), Lit("")}
AssocData == {None_, Lit(""), Lit("ssn")}

\* the secret an operator stored: generate_encryption_key()'s output
ProvisionedSecret == B64Encode(Random(0, KeyLen))

NoCall == [op |-> "none", arg |-> None_, ad |-> None_]
NoLast == [op |-> "none", arg |-> None_, ad |-> None_, res |-> Pending, fetches |-> 0,
           cache_before |-> None_]

Envelopes == {i.env : i \in issued}

\* PHIEncryption.__init__, lines 43-45, and the state of the secret store
EngineInit ==
    /\ key_vault_url \in {None_, Lit("https://vault")}
    /\ key_cache = None_
    /\ vault_secret \in (IF Truthy(key_vault_url) THEN {None_, ProvisionedSecret} ELSE {None_})
    /\ urandom_count = 0
    /\ calls = 0
    /\ issued = {}
    /\ encrypts = 0
    /\ resolved = {}

CallersIdle ==
    /\ pc = [c \in Callers |-> "idle"]
    /\ call = [c \in Callers |-> NoCall]
    /\ key = [c \in Callers |-> None_]
    /\ result = [c \in Callers |-> Pending]
    /\ fetches = [c \in Callers |-> 0]
    /\ cache_at_start = [c \in Callers |-> None_]

NoFieldCall == [op |-> "none", data |-> <<>>, fields |-> <<>>]
NoMove == [from |-> "", to |-> ""]

\* no field helper has been called
FieldsIdle ==
    /\ fl_stage = "start"
    /\ fl_call = NoFieldCall
    /\ fl_data = <<>>
    /\ fl_out = Pending
    /\ fl_at = ""
    /\ fl_plain = [data |-> <<>>, fields |-> <<>>]
    /\ fl_stored = <<>>
    /\ fl_moved = NoMove
    /\ fl_from = "start"

\* no caller is inside the audit logger
LogCallsIdle ==
    /\ lg_pc = [c \in Loggers |-> "idle"]
    /\ lg_entry = [c \in Loggers |-> None_]
    /\ lg_event = [c \in Loggers |-> None_]
    /\ lg_json = [c \in Loggers |-> None_]
    /\ lg_exc = [c \in Loggers |-> None_]
    /\ lg_result = [c \in Loggers |-> "none"]
    /\ lg_trace = [c \in Loggers |-> <<>>]
    /\ lg_found = [c \in Loggers |-> {}]
    /\ lg_made = [c \in Loggers |-> {}]

\* AuditLogger() as get_audit_logger makes it, never called
LedgerIdle ==
    /\ local_backup = TRUE
    /\ container_client = None_
    /\ blobs = {}
    /\ sink = {}
    /\ lg_calls = 0
    /\ LogCallsIdle

\* a PHIEncryption in development mode, never called
EngineIdle ==
    /\ key_vault_url = None_
    /\ key_cache = None_
    /\ vault_secret = None_
    /\ urandom_count = 0
    /\ calls = 0
    /\ issued = {}
    /\ encrypts = 0
    /\ resolved = {}

NoHandleCall == [op |-> "none", url |-> None_, res |-> None_, before |-> None_, made_before |-> 0,
                 initialized |-> None_, calls |-> 0]

\* audit.py line 325: no audit logger has been made or asked for
HandleIdle ==
    /\ _audit_logger = None_
    /\ loggers_made = 0
    /\ gl_last = NoHandleCall

NoRequest ==
    [op |-> "none", name |-> "", password |-> "", token |-> None_, status |-> 0, at |-> 0,
     users_before |-> <<>>, sessions_before |-> <<>>, issued |-> None_]

\* auth.py line 23 and an empty users table: no request has been served
AuthIdle ==
    /\ users = <<>>
    /\ sessions = <<>>
    /\ utcnow = 0
    /\ tokens_made = 0
    /\ au_calls = 0
    /\ au_last = NoRequest
    /\ au_issued = {}
    /\ au_removed = {}
    /\ au_wrong = <<>>

AppIdle == HandleIdle /\ AuthIdle

----------------------------------------------------------------------------
(* SpecCipher: one caller, one engine, call after call *)

CipherInit == EngineInit /\ CallersIdle /\ last = NoLast /\ FieldsIdle /\ LedgerIdle /\ AppIdle

\* encrypt(s, ad)
EncryptCall ==
    /\ calls < MaxCalls
    /\ \E s \in Plaintexts, ad \in AssocData, up \in BOOLEAN :
         LET r == encrypt_call(key_cache, urandom_count, up, s, ad)
         IN  /\ key_cache' = r.cache
             /\ urandom_count' = r.count
             /\ resolved' = resolved \cup r.keys
             /\ issued' = IF r.res.k = "ok"
                          THEN issued \cup {[env |-> r.res.v, pt |-> s, ad |-> ad,
                                             key |-> CHOOSE kb \in r.keys : TRUE,
                                             nonce |-> r.nonce]}
                          ELSE issued
             /\ encrypts' = IF r.res.k = "ok" THEN encrypts + 1 ELSE encrypts
             /\ last' = [op |-> "encrypt", arg |-> s, ad |-> ad, res |-> r.res,
                         fetches |-> r.fetches, cache_before |-> key_cache]
    /\ calls' = calls + 1
    /\ UNCHANGED <<ledger_vars, app_vars, key_vault_url, vault_secret, caller_vars, field_vars>>

\* decrypt(e, ad) of an envelope this engine issued
DecryptCall ==
    /\ calls < MaxCalls
    /\ \E e \in Envelopes, ad \in AssocData, up \in BOOLEAN :
         LET r == decrypt_call(key_cache, urandom_count, up, e, ad)
         IN  /\ key_cache' = r.cache
             /\ urandom_count' = r.count
             /\ resolved' = resolved \cup r.keys
             /\ last' = [op |-> "decrypt", arg |-> e, ad |-> ad, res |-> r.res,
                         fetches |-> r.fetches, cache_before |-> key_cache]
    /\ calls' = calls + 1
    /\ UNCHANGED <<ledger_vars, app_vars, key_vault_url, vault_secret, issued, encrypts, caller_vars, field_vars>>

CipherNext == EncryptCall \/ DecryptCall

SpecCipher == CipherInit /\ [][CipherNext]_vars

----------------------------------------------------------------------------
(* FieldLevelEncryption. Dicts are functions from field names to values and *)
(* live in a heap (a sequence of dicts), so that the dict a call was given   *)
(* and the dict it returns are distinct objects exactly when the code copies.*)

\* longest sensitive_fields list
MaxFieldList == 2

FieldNames == {"a", "b", "c"}
FieldValues == {Lit("x"), Lit(""), PyInt(5)}

\* the dicts over FieldNames, fields absent or present
Records == UNION {[D -> FieldValues] : D \in SUBSET FieldNames}
FieldLists == UNION {[1..n -> FieldNames] : n \in 0..MaxFieldList}

Range(f) == {f[i] : i \in DOMAIN f}

IntText(n) ==
    CASE n = 0 -> "0" [] n = 1 -> "1" [] n = 2 -> "2" [] n = 3 -> "3" [] n = 4 -> "4"
      [] n = 5 -> "5" [] n = 6 -> "6" [] n = 7 -> "7" [] n = 8 -> "8" [] n = 9 -> "9"

\* str(x)
PyStr(x) ==
    CASE IsStr(x) -> x
      [] x.k = "int" -> Lit(IntText(x.v))
      [] x.k = "bool" -> Lit(IF x.v THEN "True" ELSE "False")
      [] x.k = "none" -> Lit("None")

\* a copy that is no copy: the same object under a second name
dict_alias(heap, ref) == [heap |-> heap, ref |-> ref]

\* data.copy(), lines 194 and 218: a new dict with the same items
dict_copy(heap, ref) == [heap |-> Append(heap, heap[ref]), ref |-> Len(heap) + 1]

\* the helpers without the binding of a value to its field
field_aad_none(field) == None_

\* associated_data=field, lines 201 and 225
field_aad(field) == Lit(field)

\* the state a helper's loop carries: the heap, the engine and what the loop did
LoopStart(heap, cache, count) ==
    [heap |-> heap, cache |-> cache, count |-> count, err |-> Pending, at |-> "",
     keys |-> {}, log |-> {}, fetches |-> 0]

\* encrypt_fields(), lines 196-203, from the i-th listed field on
RECURSIVE encrypt_fields_loop(_, _, _, _, _)
encrypt_fields_loop(st, ref, sensitive_fields, i, up) ==
    IF i > Len(sensitive_fields) \/ st.err.k = "raise" THEN st
    ELSE LET field == sensitive_fields[i]
             encrypted_data == st.heap[ref]
         IN  IF field \in DOMAIN encrypted_data /\ Truthy(encrypted_data[field])
             THEN LET original_value == PyStr(encrypted_data[field])
                      r == encrypt_call(st.cache, st.count, up, original_value,
                                        field_aad(field))
                      engine == [st EXCEPT !.cache = r.cache, !.count = r.count,
                                           !.keys = @ \cup r.keys,
                                           !.fetches = @ + r.fetches]
                  IN  encrypt_fields_loop(
                          IF r.res.k = "raise"
                          THEN [engine EXCEPT !.err = r.res, !.at = field]
                          ELSE [engine EXCEPT
                                  !.heap[ref][field] = r.res.v,
                                  !.log = @ \cup {[env |-> r.res.v, pt |-> original_value,
                                                   ad |-> field_aad(field),
                                                   key |-> CHOOSE kb \in r.keys : TRUE,
                                                   nonce |-> r.nonce]}],
                          ref, sensitive_fields, i + 1, up)
             ELSE encrypt_fields_loop(st, ref, sensitive_fields, i + 1, up)

\* decrypt_fields(), lines 220-227, from the i-th listed field on
RECURSIVE decrypt_fields_loop(_, _, _, _, _)
decrypt_fields_loop(st, ref, sensitive_fields, i, up) ==
    IF i > Len(sensitive_fields) \/ st.err.k = "raise" THEN st
    ELSE LET field == sensitive_fields[i]
             decrypted_data == st.heap[ref]
         IN  IF field \in DOMAIN decrypted_data /\ Truthy(decrypted_data[field])
             THEN LET encrypted_value == decrypted_data[field]
                      r == decrypt_call(st.cache, st.count, up, encrypted_value,
                                        field_aad(field))
                      engine == [st EXCEPT !.cache = r.cache, !.count = r.count,
                                           !.keys = @ \cup r.keys,
                                           !.fetches = @ + r.fetches]
                  IN  decrypt_fields_loop(
                          IF r.res.k = "raise"
                          THEN [engine EXCEPT !.err = r.res, !.at = field]
                          ELSE [engine EXCEPT !.heap[ref][field] = r.res.v],
                          ref, sensitive_fields, i + 1, up)
             ELSE decrypt_fields_loop(st, ref, sensitive_fields, i + 1, up)

\* what a helper call leaves: its result, the caller's dict (object 1) and the engine
HelperOutcome(fin, ref) ==
    [res |-> IF fin.err.k = "raise" THEN fin.err ELSE Ok(fin.heap[ref]),
     data |-> fin.heap[1], at |-> fin.at,
     cache |-> fin.cache, count |-> fin.count, keys |-> fin.keys, log |-> fin.log,
     fetches |-> fin.fetches]

\* encrypt_fields(data, sensitive_fields), lines 194-205
encrypt_fields(cache, count, up, data, sensitive_fields) ==
    LET cp == dict_copy(<<data>>, 1)
    IN  HelperOutcome(encrypt_fields_loop(LoopStart(cp.heap, cache, count), cp.ref,
                                          sensitive_fields, 1, up), cp.ref)

\* a decrypt_fields that hands back what it has decrypted so far when a field
\* fails
decrypt_fields_partial(cache, count, up, data, sensitive_fields) ==
    LET cp == dict_copy(<<data>>, 1)
        fin == decrypt_fields_loop(LoopStart(cp.heap, cache, count), cp.ref,
                                   sensitive_fields, 1, up)
    IN  HelperOutcome([fin EXCEPT !.err = Pending], cp.ref)

\* decrypt_fields(data, sensitive_fields), lines 218-229
decrypt_fields(cache, count, up, data, sensitive_fields) ==
    LET cp == dict_copy(<<data>>, 1)
    IN  HelperOutcome(decrypt_fields_loop(LoopStart(cp.heap, cache, count), cp.ref,
                                          sensitive_fields, 1, up), cp.ref)

----------------------------------------------------------------------------
(* SpecFields: a record is encrypted field by field, stored, perhaps has an *)
(* envelope put under another field name, and is decrypted.                 *)

FieldsInit ==
    EngineInit /\ CallersIdle /\ last = NoLast /\ FieldsIdle /\ LedgerIdle /\ AppIdle

\* the engine after a helper call
EngineAfter(r) ==
    /\ key_cache' = r.cache
    /\ urandom_count' = r.count
    /\ resolved' = resolved \cup r.keys
    /\ issued' = issued \cup r.log
    /\ encrypts' = encrypts + Cardinality(r.log)
    /\ calls' = calls + 1
    /\ UNCHANGED <<key_vault_url, vault_secret>>

\* encrypt_fields(data, sensitive_fields) on a record of plain values
EncryptFields ==
    /\ fl_stage = "start"
    /\ \E data \in Records, sensitive_fields \in FieldLists, up \in BOOLEAN :
         LET r == encrypt_fields(key_cache, urandom_count, up, data, sensitive_fields)
         IN  /\ EngineAfter(r)
             /\ fl_call' = [op |-> "encrypt_fields", data |-> data, fields |-> sensitive_fields]
             /\ fl_data' = r.data
             /\ fl_out' = r.res
             /\ fl_at' = r.at
             /\ fl_plain' = [data |-> data, fields |-> sensitive_fields]
             /\ fl_stored' = IF r.res.k = "ok" THEN r.res.v ELSE fl_stored
             /\ fl_stage' = IF r.res.k = "ok" THEN "encrypted" ELSE "failed"
    /\ UNCHANGED <<ledger_vars, app_vars, fl_moved, fl_from, caller_vars, last>>

\* in the store, the envelope encrypt_fields made for field f is put under
\* another field name g
MoveEnvelope ==
    /\ fl_stage = "encrypted"
    /\ \E f \in DOMAIN fl_stored, g \in FieldNames :
         /\ f # g
         /\ f \in Range(fl_plain.fields) /\ Truthy(fl_plain.data[f])
         /\ fl_stored' = [x \in (DOMAIN fl_stored \ {f}) \cup {g} |->
                            IF x = g THEN fl_stored[f] ELSE fl_stored[x]]
         /\ fl_moved' = [from |-> f, to |-> g]
    /\ fl_stage' = "moved"
    /\ UNCHANGED <<ledger_vars, app_vars, engine_vars, history_vars, caller_vars, last,
                   fl_call, fl_data, fl_out, fl_at, fl_plain, fl_from>>

\* decrypt_fields(data, sensitive_fields) on the stored record, or on a record
\* of plain values
DecryptFields ==
    /\ fl_stage \in {"start", "encrypted", "moved"}
    /\ \E data \in (IF fl_stage = "start" THEN Records ELSE {fl_stored}),
          sensitive_fields \in FieldLists, up \in BOOLEAN :
         LET r == decrypt_fields(key_cache, urandom_count, up, data, sensitive_fields)
         IN  /\ EngineAfter(r)
             /\ fl_call' = [op |-> "decrypt_fields", data |-> data, fields |-> sensitive_fields]
             /\ fl_data' = r.data
             /\ fl_out' = r.res
             /\ fl_at' = r.at
    /\ fl_from' = fl_stage
    /\ fl_stage' = "decrypted"
    /\ UNCHANGED <<ledger_vars, app_vars, fl_plain, fl_stored, fl_moved, caller_vars, last>>

FieldsNext == EncryptFields \/ MoveEnvelope \/ DecryptFields

SpecFields == FieldsInit /\ [][FieldsNext]_vars

----------------------------------------------------------------------------
(* Claims about encrypt()/decrypt() on one engine, under SpecCipher *)

\* the issued envelopes the last call was a decrypt() of
LastDecryptOf(i) == last.op = "decrypt" /\ last.arg = i.env

\* C1: decrypt(encrypt(s, a), a) returns s, on an engine with or without a
\* secret store.
C1_RoundTrip ==
    \A i \in issued : (LastDecryptOf(i) /\ last.ad = i.ad) => last.res = Ok(i.pt)

\* C2: with no secret-store endpoint configured, every key resolution on the
\* engine yields the same key.
C2_OneKeyPerProcess ==
    ~Truthy(key_vault_url) => Cardinality(resolved) <= 1

\* C3 as stated: decrypt(encrypt(s, a1), a2) fails with an authentication
\* failure whenever a1 # a2, omitted counting as a value of its own.
C3_AnyMismatchFails ==
    \A i \in issued : (LastDecryptOf(i) /\ last.ad # i.ad) => last.res = Raise("InvalidTag")

\* omitted associated data and the empty string are one value
SameAssocData(a1, a2) == a1 = a2 \/ {a1, a2} = {None_, Lit("")}

\* C3 as amended: decrypt(encrypt(s, a1), a2) fails with an authentication
\* failure whenever a1 and a2 differ, omitted and the empty string counting as
\* the same value.
C3_MismatchFails ==
    \A i \in issued :
        (LastDecryptOf(i) /\ ~SameAssocData(last.ad, i.ad)) => last.res = Raise("InvalidTag")

\* C3 witness: with the engine's key cached, so that the key is the one the
\* envelope was sealed with, a decrypt under other associated data was refused
C3_Witness ==
    \E i \in issued :
        /\ LastDecryptOf(i) /\ ~SameAssocData(last.ad, i.ad)
        /\ key_cache = i.key
        /\ last.res = Raise("InvalidTag")

\* C7: any two encrypt() calls on the engine return different envelopes, and
\* no nonce is used twice under one key.
C7_FreshNonce ==
    /\ Cardinality(Envelopes) = encrypts
    /\ \A i, j \in issued : (i.key = j.key /\ i.nonce = j.nonce) => i = j

\* C7 witness: two encrypt() calls of the same plaintext with the same
\* associated data under the same key
C7_Witness ==
    /\ encrypts >= 2
    /\ \E i, j \in issued : i # j /\ i.pt = j.pt /\ i.ad = j.ad /\ i.key = j.key

----------------------------------------------------------------------------
(* SpecRace: NumCallers concurrent callers of encrypt()/decrypt() on one    *)
(* engine. A call is cut where it reads or writes what the callers share:   *)
(* the read of _key_cache, get_secret, the write of _key_cache.             *)

RacePlaintexts == {Lit("John Doe")}
RaceAssocData == {None_, Lit("ssn")}

RaceInit == EngineInit /\ CallersIdle /\ last = NoLast /\ FieldsIdle /\ LedgerIdle /\ AppIdle

\* a caller enters encrypt(plaintext, associated_data) or
\* decrypt(encrypted_data, associated_data)
Call(c) ==
    /\ pc[c] = "idle"
    /\ calls < MaxRaceCalls
    /\ \E ad \in RaceAssocData :
         \/ \E s \in RacePlaintexts :
              call' = [call EXCEPT ![c] = [op |-> "encrypt", arg |-> s, ad |-> ad]]
         \/ \E e \in Envelopes :
              call' = [call EXCEPT ![c] = [op |-> "decrypt", arg |-> e, ad |-> ad]]
    /\ pc' = [pc EXCEPT ![c] = "get_key"]
    /\ calls' = calls + 1
    /\ cache_at_start' = [cache_at_start EXCEPT ![c] = key_cache]
    /\ UNCHANGED <<ledger_vars, app_vars, key_vault_url, key_cache, vault_secret, urandom_count, history_vars,
                   key, result, fetches, last, field_vars>>

\* _get_encryption_key, lines 65-66: if self._key_cache: return self._key_cache
GetKeyCached(c) ==
    /\ pc[c] = "get_key"
    /\ Truthy(key_cache)
    /\ key' = [key EXCEPT ![c] = key_cache]
    /\ resolved' = resolved \cup {key_cache}
    /\ pc' = [pc EXCEPT ![c] = "crypt"]
    /\ UNCHANGED <<ledger_vars, app_vars, engine_vars, issued, encrypts, call, result, fetches, cache_at_start, last, field_vars>>

\* _get_encryption_key, lines 68-71: no key vault: return os.urandom(32)
GetKeyGenerated(c) ==
    /\ pc[c] = "get_key"
    /\ ~Truthy(key_cache)
    /\ ~Truthy(key_vault_url)
    /\ key' = [key EXCEPT ![c] = generated_key(urandom_count)]
    /\ resolved' = resolved \cup {generated_key(urandom_count)}
    /\ urandom_count' = urandom_count + 1
    /\ pc' = [pc EXCEPT ![c] = "crypt"]
    /\ UNCHANGED <<ledger_vars, app_vars, key_vault_url, key_cache, vault_secret, calls, issued, encrypts,
                   call, result, fetches, cache_at_start, last, field_vars>>

\* _get_encryption_key, lines 65-73: cache empty and a key vault configured
GetKeyMiss(c) ==
    /\ pc[c] = "get_key"
    /\ ~Truthy(key_cache)
    /\ Truthy(key_vault_url)
    /\ pc' = [pc EXCEPT ![c] = "fetch"]
    /\ UNCHANGED <<ledger_vars, app_vars, engine_vars, history_vars, call, key, result, fetches, cache_at_start, last, field_vars>>

\* get_secret as it would be if each fetch gave a key of its own
GetSecretOkFreshKey(c) ==
    /\ pc[c] = "fetch"
    /\ vault_secret # None_
    /\ fetches' = [fetches EXCEPT ![c] = @ + 1]
    /\ key' = [key EXCEPT ![c] = generated_key(urandom_count)]
    /\ urandom_count' = urandom_count + 1
    /\ pc' = [pc EXCEPT ![c] = "store"]
    /\ UNCHANGED <<ledger_vars, app_vars, key_vault_url, key_cache, vault_secret, calls, history_vars, call, result,
                   cache_at_start, last, field_vars>>

\* lines 74-75: get_secret answers; key = base64.b64decode(secret.value)
GetSecretOk(c) ==
    /\ pc[c] = "fetch"
    /\ vault_secret # None_
    /\ fetches' = [fetches EXCEPT ![c] = @ + 1]
    /\ key' = [key EXCEPT ![c] = B64Decode(vault_secret).v]
    /\ pc' = [pc EXCEPT ![c] = "store"]
    /\ UNCHANGED <<ledger_vars, app_vars, engine_vars, history_vars, call, result, cache_at_start, last, field_vars>>

\* lines 74, 79-81 and 117-119 / 156-158: get_secret raises (store unreachable
\* or secret missing); logged and re-raised through encrypt()/decrypt()
GetSecretFail(c) ==
    /\ pc[c] = "fetch"
    /\ fetches' = [fetches EXCEPT ![c] = @ + 1]
    /\ result' = [result EXCEPT ![c] = Raise("KeyUnavailable")]
    /\ pc' = [pc EXCEPT ![c] = "done"]
    /\ UNCHANGED <<ledger_vars, app_vars, engine_vars, history_vars, call, key, cache_at_start, last, field_vars>>

\* lines 76-78 as they would be without the assignment to self._key_cache
StoreKeySkipped(c) ==
    /\ pc[c] = "store"
    /\ resolved' = resolved \cup {key[c]}
    /\ pc' = [pc EXCEPT ![c] = "crypt"]
    /\ UNCHANGED <<ledger_vars, app_vars, engine_vars, issued, encrypts, call, key, result, fetches,
                   cache_at_start, last, field_vars>>

\* lines 76-78: self._key_cache = key; return key
StoreKey(c) ==
    /\ pc[c] = "store"
    /\ key_cache' = key[c]
    /\ resolved' = resolved \cup {key[c]}
    /\ pc' = [pc EXCEPT ![c] = "crypt"]
    /\ UNCHANGED <<ledger_vars, app_vars, key_vault_url, vault_secret, urandom_count, calls, issued, encrypts,
                   call, key, result, fetches, cache_at_start, last, field_vars>>

\* encrypt(), lines 96-115
Encrypt(c) ==
    /\ pc[c] = "crypt"
    /\ call[c].op = "encrypt"
    /\ LET nonce == fresh_nonce(urandom_count)
           r == encrypt(key[c], nonce, call[c].arg, call[c].ad)
       IN  /\ result' = [result EXCEPT ![c] = r]
           /\ issued' = IF r.k = "ok"
                        THEN issued \cup {[env |-> r.v, pt |-> call[c].arg, ad |-> call[c].ad,
                                            key |-> key[c], nonce |-> nonce]}
                        ELSE issued
           /\ encrypts' = IF r.k = "ok" THEN encrypts + 1 ELSE encrypts
    /\ urandom_count' = urandom_count + 1
    /\ pc' = [pc EXCEPT ![c] = "done"]
    /\ UNCHANGED <<ledger_vars, app_vars, key_vault_url, key_cache, vault_secret, calls, resolved,
                   call, key, fetches, cache_at_start, last, field_vars>>

\* decrypt(), lines 134-158
Decrypt(c) ==
    /\ pc[c] = "crypt"
    /\ call[c].op = "decrypt"
    /\ result' = [result EXCEPT ![c] = decrypt(key[c], call[c].arg, call[c].ad)]
    /\ pc' = [pc EXCEPT ![c] = "done"]
    /\ UNCHANGED <<ledger_vars, app_vars, engine_vars, history_vars, call, key, fetches, cache_at_start, last, field_vars>>

\* the call returns or raises to its caller
Return(c) ==
    /\ pc[c] = "done"
    /\ pc' = [pc EXCEPT ![c] = "idle"]
    /\ call' = [call EXCEPT ![c] = NoCall]
    /\ key' = [key EXCEPT ![c] = None_]
    /\ result' = [result EXCEPT ![c] = Pending]
    /\ fetches' = [fetches EXCEPT ![c] = 0]
    /\ cache_at_start' = [cache_at_start EXCEPT ![c] = None_]
    /\ UNCHANGED <<ledger_vars, app_vars, engine_vars, history_vars, last, field_vars>>

RaceNext ==
    \E c \in Callers :
        \/ Call(c)
        \/ GetKeyCached(c)
        \/ GetKeyGenerated(c)
        \/ GetKeyMiss(c)
        \/ GetSecretOk(c)
        \/ GetSecretFail(c)
        \/ StoreKey(c)
        \/ Encrypt(c)
        \/ Decrypt(c)
        \/ Return(c)

SpecRace == RaceInit /\ [][RaceNext]_vars

----------------------------------------------------------------------------
(* Claims about key resolution *)

\* caller c holds a resolved key
HoldsKey(c) == key[c] # None_

\* C4: the key is not fetched before the first call; a call that fetched the
\* key has cached it; and a call begun once the cache is populated makes no
\* fetch and uses the cached key.
C4_LazyThenCached ==
    /\ calls = 0 => (key_cache = None_ /\ \A c \in Callers : fetches[c] = 0)
    /\ \A c \in Callers :
         (pc[c] \in {"crypt", "done"} /\ fetches[c] > 0 /\ HoldsKey(c)) => key_cache = key[c]
    /\ \A c \in Callers :
         (pc[c] # "idle" /\ Truthy(cache_at_start[c])) =>
             /\ fetches[c] = 0
             /\ pc[c] \notin {"fetch", "store"}
             /\ pc[c] \in {"crypt", "done"} => key[c] = cache_at_start[c]

\* C4 witness: a call begun after the key was cached has completed without a
\* fetch
C4_Witness ==
    \E c \in Callers :
        /\ Truthy(cache_at_start[c]) /\ pc[c] = "done"
        /\ result[c].k = "ok" /\ fetches[c] = 0

\* every key in use is the cached one
AllUseCachedKey ==
    Truthy(key_cache) =>
        /\ \A c \in Callers : HoldsKey(c) => key[c] = key_cache
        /\ \A i \in issued : i.key = key_cache

\* C5: under any interleaving, once the key cache is populated its value never
\* changes, and every caller encrypts or decrypts with that key.
C5_RaceHarmless ==
    /\ [][Truthy(key_cache) => key_cache' = key_cache]_vars
    /\ []AllUseCachedKey

\* C5 witness: two callers raced on the first access, both fetched, and both
\* went on with the key that is cached
C5_Witness ==
    \E c, d \in Callers :
        /\ c # d /\ fetches[c] = 1 /\ fetches[d] = 1
        /\ pc[c] \in {"crypt", "done"} /\ pc[d] \in {"crypt", "done"}
        /\ HoldsKey(c) /\ HoldsKey(d) /\ Truthy(key_cache)

\* C6: a call that finds the secret store unreachable or the secret missing
\* makes exactly one fetch attempt, raises without a value and leaves the key
\* cache unpopulated; a later call that finds the cache unpopulated attempts
\* the fetch again.
C6_FetchFailure ==
    /\ last.res = Raise("KeyUnavailable") =>
           (last.fetches = 1 /\ key_cache = None_ /\ last.cache_before = None_)
    /\ (last.op # "none" /\ Truthy(key_vault_url) /\ ~Truthy(last.cache_before)) =>
           last.fetches = 1

\* C6 witness: a second call in a row has failed on its one fetch attempt
C6_Witness ==
    /\ last.res = Raise("KeyUnavailable") /\ last.fetches = 1
    /\ calls >= 2 /\ encrypts = 0 /\ key_cache = None_

----------------------------------------------------------------------------
(* Claims about the field helpers, under SpecFields *)

\* decrypt_fields was just called on what encrypt_fields returned, with the
\* same sensitive-field list
RoundTripDone ==
    /\ fl_stage = "decrypted" /\ fl_from = "encrypted"
    /\ fl_call.fields = fl_plain.fields

\* C8: decrypt_fields(encrypt_fields(record, fields), fields) restores every
\* listed field to its original value and leaves every other field with its
\* original value and type: the result is the original record.
C8_FieldsRoundTrip ==
    RoundTripDone => fl_out = Ok(fl_plain.data)

\* the listed fields of the call that hold a non-empty value
Processed(data, fields) == {f \in DOMAIN data : f \in Range(fields) /\ Truthy(data[f])}

\* C9: encrypt_fields and decrypt_fields leave their input dict as it was; in
\* the dict they return, fields that are absent stay absent, listed fields that
\* are empty and fields that are not listed keep their value, and each listed
\* non-empty field of encrypt_fields' result differs from its input value.
C9_InputNotMutated ==
    fl_call.op # "none" =>
        /\ fl_data = fl_call.data
        /\ fl_out.k = "ok" =>
             /\ DOMAIN fl_out.v = DOMAIN fl_call.data
             /\ \A f \in DOMAIN fl_call.data \ Processed(fl_call.data, fl_call.fields) :
                    fl_out.v[f] = fl_call.data[f]
             /\ fl_call.op = "encrypt_fields" =>
                    \A f \in Processed(fl_call.data, fl_call.fields) :
                        fl_out.v[f] # fl_call.data[f]

\* C9 witness: encrypt_fields returned a record with a listed non-empty field,
\* a listed empty field and a field that was not listed
C9_Witness ==
    /\ fl_call.op = "encrypt_fields" /\ fl_out.k = "ok"
    /\ Processed(fl_call.data, fl_call.fields) # {}
    /\ \E f \in DOMAIN fl_call.data : f \in Range(fl_call.fields) /\ ~Truthy(fl_call.data[f])
    /\ \E f \in DOMAIN fl_call.data : f \notin Range(fl_call.fields) /\ fl_call.data[f] = PyInt(5)

\* decrypt_fields was just called on a stored record in which the envelope of
\* one field sits under another field name, that name being listed
SwappedDecryptDone ==
    /\ fl_stage = "decrypted" /\ fl_from = "moved"
    /\ fl_moved.to \in Range(fl_call.fields)

\* C10: an envelope encrypt_fields made for field f, put under another field
\* name g and passed to decrypt_fields with g listed, is never decrypted: the
\* call raises, and when it is g's decryption that raises it is an
\* authentication failure.
C10_BoundToFieldName ==
    SwappedDecryptDone =>
        /\ fl_out.k = "raise"
        /\ fl_at = fl_moved.to => fl_out = Raise("InvalidTag")

\* C10 witness: with the engine's key cached (the key the envelope was sealed
\* with), the moved envelope was refused for its field name
C10_Witness ==
    /\ SwappedDecryptDone
    /\ Truthy(key_cache) /\ \A i \in issued : i.key = key_cache
    /\ fl_at = fl_moved.to /\ fl_out = Raise("InvalidTag")

----------------------------------------------------------------------------
(* security/audit.py: the audit event *)

\* a str kept character by character (the action of an event)
Chars(cs) == [k |-> "chars", v |-> cs]
\* a dict
Dict(d) == [k |-> "dict", v |-> d]
EmptyDict == Dict(<<>>)
\* an object the JSON serializer has no encoding for
Opaque == [k |-> "object", v |-> "<object>"]

\* AuditEventType
EventType(value) == [k |-> "AuditEventType", v |-> value]
LOGIN_SUCCESS == EventType("login_success")
LOGIN_FAILURE == EventType("login_failure")
PHI_VIEW == EventType("phi_view")
PHI_CREATE == EventType("phi_create")
PHI_UPDATE == EventType("phi_update")
PHI_DELETE == EventType("phi_delete")
PHI_EXPORT == EventType("phi_export")
SECURITY_VIOLATION == EventType("security_violation")
UNAUTHORIZED_ACCESS == EventType("unauthorized_access")
LOGOUT == EventType("logout")
CONFIG_CHANGE == EventType("config_change")

\* AuditSeverity
Severity(value) == [k |-> "AuditSeverity", v |-> value]
INFO == Severity("info")
WARNING == Severity("warning")
ERROR == Severity("error")
CRITICAL == Severity("critical")

\* member.value of a str-valued Enum
EnumValue(member) == Lit(member.v)

\* datetime(year, month, day, hour, minute, tzinfo=timezone.utc)
Datetime(year, month, day, hour, minute) ==
    [k |-> "datetime",
     v |-> [year |-> year, month |-> month, day |-> day, hour |-> hour, minute |-> minute]]

Pad2(n) == IF n < 10 THEN "0" \o ToString(n) ELSE ToString(n)
Pad4(n) ==
    IF n < 10 THEN "000" \o ToString(n)
    ELSE IF n < 100 THEN "00" \o ToString(n)
    ELSE IF n < 1000 THEN "0" \o ToString(n)
    ELSE ToString(n)

\* timestamp.strftime("%Y/%m/%d")
strftime_Ymd(ts) == Lit(Pad4(ts.v.year) \o "/" \o Pad2(ts.v.month) \o "/" \o Pad2(ts.v.day))

\* timestamp.isoformat() of an aware UTC datetime without microseconds
isoformat(ts) ==
    Lit(Pad4(ts.v.year) \o "-" \o Pad2(ts.v.month) \o "-" \o Pad2(ts.v.day) \o "T"
        \o Pad2(ts.v.hour) \o ":" \o Pad2(ts.v.minute) \o ":00+00:00")

\* str(uuid4()): uuid4 draws its bits from os.urandom
uuid4_str(count) == Lit("uuid4-" \o ToString(urandom(count, 16).v.id))

\* the fields of AuditEvent that have a fixed default
AuditEventDefaults ==
    [severity |-> INFO,
     user_id |-> None_, username |-> None_, role |-> None_,
     ip_address |-> None_, user_agent |-> None_, session_id |-> None_,
     resource_type |-> None_, resource_id |-> None_, patient_id_hash |-> None_,
     result |-> Lit("success"), reason |-> None_,
     service_name |-> Lit("medical-scribe-ai"), environment |-> Lit("production")]

AuditEventFields ==
    {"event_id", "timestamp", "event_type", "action", "metadata"} \cup DOMAIN AuditEventDefaults

\* AuditEvent(**kw): a field not passed takes its default; event_id and
\* timestamp default to a new uuid4 and to the clock's reading now
AuditEvent(kw, count, now) ==
    [f \in AuditEventFields |->
        IF f \in DOMAIN kw THEN kw[f]
        ELSE CASE f = "event_id" -> uuid4_str(count)
               [] f = "timestamp" -> now
               [] f = "metadata" -> EmptyDict
               [] OTHER -> AuditEventDefaults[f]]

\* what the JSON serializer can write
Serializable(x) ==
    CASE x.k = "object" -> FALSE
      [] x.k = "dict" -> \A n \in DOMAIN x.v : x.v[n].k # "object"
      [] OTHER -> TRUE

\* event.model_dump_json(indent=2): the JSON text of all the fields
model_dump_json(event) ==
    IF \A f \in DOMAIN event : Serializable(event[f])
    THEN Ok([k |-> "json", v |-> event])
    ELSE Raise("PydanticSerializationError")

----------------------------------------------------------------------------
(* security/audit.py: the convenience constructors *)

UpperCase == <<"A", "B", "C", "D", "E", "F", "G", "H", "I", "J", "K", "L", "M",
               "N", "O", "P", "Q", "R", "S", "T", "U", "V", "W", "X", "Y", "Z">>
LowerCase == <<"a", "b", "c", "d", "e", "f", "g", "h", "i", "j", "k", "l", "m",
               "n", "o", "p", "q", "r", "s", "t", "u", "v", "w", "x", "y", "z">>

\* str.lower() on ASCII text
lower(text) ==
    Chars([i \in DOMAIN text.v |->
             IF \E j \in DOMAIN UpperCase : UpperCase[j] = text.v[i]
             THEN LowerCase[CHOOSE j \in DOMAIN UpperCase : UpperCase[j] = text.v[i]]
             ELSE text.v[i]])

\* action_map of _get_phi_event_type
action_map ==
    [a \in {Chars(<<"v", "i", "e", "w">>), Chars(<<"r", "e", "a", "d">>),
            Chars(<<"c", "r", "e", "a", "t", "e">>), Chars(<<"u", "p", "d", "a", "t", "e">>),
            Chars(<<"m", "o", "d", "i", "f", "y">>), Chars(<<"d", "e", "l", "e", "t", "e">>),
            Chars(<<"e", "x", "p", "o", "r", "t">>)} |->
        CASE a = Chars(<<"v", "i", "e", "w">>) -> PHI_VIEW
          [] a = Chars(<<"r", "e", "a", "d">>) -> PHI_VIEW
          [] a = Chars(<<"c", "r", "e", "a", "t", "e">>) -> PHI_CREATE
          [] a = Chars(<<"u", "p", "d", "a", "t", "e">>) -> PHI_UPDATE
          [] a = Chars(<<"m", "o", "d", "i", "f", "y">>) -> PHI_UPDATE
          [] a = Chars(<<"d", "e", "l", "e", "t", "e">>) -> PHI_DELETE
          [] a = Chars(<<"e", "x", "p", "o", "r", "t">>) -> PHI_EXPORT]

\* dict.get(key, default)
dict_get(d, name, default) == IF name \in DOMAIN d THEN d[name] ELSE default

\* a defective mapping that looks the action up as it was passed
get_phi_event_type_exact(action) == dict_get(action_map, action, PHI_VIEW)

\* AuditLogger._get_phi_event_type(action)
get_phi_event_type(action) == dict_get(action_map, lower(action), PHI_VIEW)

\* a defective severity choice that escalates denials only
phi_access_severity_denied_only(res) == IF res = Lit("denied") THEN WARNING ELSE INFO

\* the severity log_phi_access passes to AuditEvent
phi_access_severity(res) == IF res = Lit("success") THEN INFO ELSE WARNING

\* the event log_phi_access builds
phi_access_event(a, count, now) ==
    AuditEvent([event_type |-> get_phi_event_type(a.action),
                user_id |-> a.user_id,
                patient_id_hash |-> a.patient_id_hash,
                resource_type |-> a.resource_type,
                resource_id |-> a.resource_id,
                action |-> a.action,
                result |-> a.result,
                ip_address |-> a.ip_address,
                severity |-> phi_access_severity(a.result),
                metadata |-> IF Truthy(a.metadata) THEN a.metadata ELSE EmptyDict],
               count, now)

\* the event log_authentication builds
authentication_event(a, count, now) ==
    AuditEvent([event_type |-> IF a.success THEN LOGIN_SUCCESS ELSE LOGIN_FAILURE,
                user_id |-> a.user_id,
                action |-> Chars(<<"a", "u", "t", "h", "e", "n", "t", "i", "c", "a", "t", "e">>),
                result |-> IF a.success THEN Lit("success") ELSE Lit("failure"),
                reason |-> a.reason,
                ip_address |-> a.ip_address,
                severity |-> IF a.success THEN INFO ELSE WARNING],
               count, now)

\* the event log_security_event builds
security_event(a, count, now) ==
    AuditEvent([event_type |-> a.event_type,
                severity |-> a.severity,
                user_id |-> a.user_id,
                action |-> a.action,
                result |-> Lit("detected"),
                ip_address |-> a.ip_address,
                metadata |-> IF Truthy(a.metadata) THEN a.metadata ELSE EmptyDict],
               count, now)

----------------------------------------------------------------------------
(* security/audit.py: AuditLogger.log_event and _write_to_storage *)

\* the container's client of a logger built with a storage account URL
TheContainerClient == [k |-> "ContainerClient", v |-> "audit-logs"]

\* a local record that leaves out who did it
audit_record_anonymous(event) ==
    [level |-> "info", msg |-> "audit_event",
     kw |-> [event_id |-> event.event_id,
             event_type |-> EnumValue(event.event_type),
             user_id |-> None_,
             action |-> event.action,
             result |-> event.result,
             severity |-> EnumValue(event.severity)]]

\* the record logger.info("audit_event", ...) hands to the local sink
audit_record(event) ==
    [level |-> "info", msg |-> "audit_event",
     kw |-> [event_id |-> event.event_id,
             event_type |-> EnumValue(event.event_type),
             user_id |-> event.user_id,
             action |-> event.action,
             result |-> event.result,
             severity |-> EnumValue(event.severity)]]

\* logger.debug("Audit event written to storage", blob_name=blob_name)
written_record(name) ==
    [level |-> "debug", msg |-> "Audit event written to storage", kw |-> [blob_name |-> name]]

\* logger.error("Failed to write audit event to storage", error=str(e))
storage_error_record(e) ==
    [level |-> "error", msg |-> "Failed to write audit event to storage",
     kw |-> [error |-> Lit(e.v)]]

\* logger.error("Failed to log audit event", error=str(e), event_type=...)
log_error_record(e, event) ==
    [level |-> "error", msg |-> "Failed to log audit event",
     kw |-> [error |-> Lit(e.v), event_type |-> EnumValue(event.event_type)]]

\* a defective name that leaves the date partition out
blob_name_flat(event) == Lit(event.event_id.v \o ".json")

\* blob_name = f"{date_partition}/{event.event_id}.json"
blob_name(event) == Lit(strftime_Ymd(event.timestamp).v \o "/" \o event.event_id.v \o ".json")

\* defective metadata that takes the severity for the event type
blob_metadata_mixed(event) ==
    [event_type |-> EnumValue(event.severity),
     severity |-> EnumValue(event.severity),
     user_id |-> IF Truthy(event.user_id) THEN event.user_id ELSE Lit("anonymous"),
     timestamp |-> isoformat(event.timestamp)]

\* the metadata _write_to_storage passes to upload_blob
blob_metadata(event) ==
    [event_type |-> EnumValue(event.event_type),
     severity |-> EnumValue(event.severity),
     user_id |-> IF Truthy(event.user_id) THEN event.user_id ELSE Lit("anonymous"),
     timestamp |-> isoformat(event.timestamp)]

\* a defective call that lets upload_blob overwrite
overwrite_allowed == TRUE

\* the overwrite argument _write_to_storage passes to upload_blob
overwrite_arg == FALSE

\* blob_client.upload_blob(data, overwrite=..., metadata=...) on a container
\* that answers: an existing name is replaced or refused, a new one is created
upload_blob(container, name, data, overwrite, metadata) ==
    LET obj == [name |-> name, content |-> data, metadata |-> metadata]
        old == {b \in container : b.name = name}
    IN  IF old # {} /\ ~overwrite
        THEN [res |-> Raise("ResourceExistsError"), container |-> container]
        ELSE [res |-> Ok(None_), container |-> (container \ old) \cup {obj}]

\* the ways a request to the storage account fails without reaching the container
StorageFailures == {Raise("ServiceRequestError"), Raise("ClientAuthenticationError")}

\* the way a logger call fails
LocalEmitFailure == Raise("LocalEmitFailure")

----------------------------------------------------------------------------
(* The steps of one log_event call. A call is cut where it reaches the      *)
(* local sink or the container, which other callers reach too.              *)

\* the rest of the program, which the audit logger does not touch
CipherUntouched ==
    UNCHANGED <<key_vault_url, key_cache, vault_secret, calls, history_vars, caller_vars,
                last, field_vars, app_vars>>

\* the call did op, which handed over or asked for what, with outcome res
Did(c, op, res, what) ==
    lg_trace' = [lg_trace EXCEPT ![c] = Append(@, [op |-> op, res |-> res, what |-> what])]

\* log_event(event) begins: the event is serialized (line 158)
Begin(c, entry, event) ==
    LET j == model_dump_json(event)
    IN  /\ lg_pc[c] = "idle"
        /\ lg_calls < MaxLogCalls
        /\ lg_calls' = lg_calls + 1
        /\ lg_entry' = [lg_entry EXCEPT ![c] = entry]
        /\ lg_event' = [lg_event EXCEPT ![c] = event]
        /\ lg_json' = [lg_json EXCEPT ![c] = IF j.k = "ok" THEN j.v ELSE None_]
        /\ lg_exc' = [lg_exc EXCEPT ![c] = IF j.k = "ok" THEN None_ ELSE j]
        /\ lg_pc' = [lg_pc EXCEPT ![c] = IF j.k = "ok" THEN "emit" ELSE "handler"]
        /\ lg_result' = [lg_result EXCEPT ![c] = "none"]
        /\ lg_trace' = [lg_trace EXCEPT ![c] = <<>>]
        /\ lg_found' = [lg_found EXCEPT ![c] = {}]
        /\ lg_made' = [lg_made EXCEPT ![c] = {}]
        /\ UNCHANGED <<local_backup, container_client, blobs, sink>>

\* after the local emission: line 173
AfterEmit(c) ==
    IF Truthy(container_client)
    THEN /\ lg_pc' = [lg_pc EXCEPT ![c] = "upload"]
         /\ UNCHANGED lg_result
    ELSE /\ lg_pc' = [lg_pc EXCEPT ![c] = "done"]
         /\ lg_result' = [lg_result EXCEPT ![c] = "returned"]

\* a defective log_event that may pass over the local emission whatever
\* local_backup says
EmitSkippedAnyway(c) ==
    /\ lg_pc[c] = "emit"
    /\ AfterEmit(c)
    /\ UNCHANGED <<logger_vars, lg_entry, lg_event, lg_json, lg_exc, lg_trace, lg_found, lg_made>>
    /\ UNCHANGED urandom_count /\ CipherUntouched

\* line 161: local_backup is off, nothing is emitted
EmitSkipped(c) ==
    /\ lg_pc[c] = "emit"
    /\ ~local_backup
    /\ AfterEmit(c)
    /\ UNCHANGED <<logger_vars, lg_entry, lg_event, lg_json, lg_exc, lg_trace, lg_found, lg_made>>
    /\ UNCHANGED urandom_count /\ CipherUntouched

\* lines 161-170: the local sink takes the event's record
EmitOk(c) ==
    /\ lg_pc[c] = "emit"
    /\ local_backup
    /\ sink' = sink \cup {audit_record(lg_event[c])}
    /\ Did(c, "info", "ok", audit_record(lg_event[c]))
    /\ AfterEmit(c)
    /\ UNCHANGED <<local_backup, container_client, blobs, lg_calls,
                   lg_entry, lg_event, lg_json, lg_exc, lg_found, lg_made>>
    /\ UNCHANGED urandom_count /\ CipherUntouched

\* a defective log_event that goes on when the local sink fails
EmitFailIgnored(c) ==
    /\ lg_pc[c] = "emit"
    /\ local_backup
    /\ Did(c, "info", "fail", audit_record(lg_event[c]))
    /\ AfterEmit(c)
    /\ UNCHANGED <<logger_vars, lg_entry, lg_event, lg_json, lg_exc, lg_found, lg_made>>
    /\ UNCHANGED urandom_count /\ CipherUntouched

\* a defective log_event that still writes the event to the container after
\* the local sink failed, and raises afterwards
EmitFailThenStored(c) ==
    /\ lg_pc[c] = "emit"
    /\ local_backup
    /\ Did(c, "info", "fail", audit_record(lg_event[c]))
    /\ lg_exc' = [lg_exc EXCEPT ![c] = LocalEmitFailure]
    /\ lg_pc' = [lg_pc EXCEPT ![c] = IF Truthy(container_client) THEN "upload" ELSE "handler"]
    /\ UNCHANGED <<logger_vars, lg_entry, lg_event, lg_json, lg_result, lg_found, lg_made>>
    /\ UNCHANGED urandom_count /\ CipherUntouched

\* lines 161-170: the local sink fails
EmitFail(c) ==
    /\ lg_pc[c] = "emit"
    /\ local_backup
    /\ Did(c, "info", "fail", audit_record(lg_event[c]))
    /\ lg_exc' = [lg_exc EXCEPT ![c] = LocalEmitFailure]
    /\ lg_pc' = [lg_pc EXCEPT ![c] = "handler"]
    /\ UNCHANGED <<logger_vars, lg_entry, lg_event, lg_json, lg_result, lg_found, lg_made>>
    /\ UNCHANGED urandom_count /\ CipherUntouched

\* lines 192-205: the request reaches the container
Upload(c) ==
    /\ lg_pc[c] = "upload"
    /\ LET event == lg_event[c]
           r == upload_blob(blobs, blob_name(event), lg_json[c], overwrite_arg,
                            blob_metadata(event))
       IN  /\ blobs' = r.container
           /\ lg_found' = [lg_found EXCEPT ![c] = blobs]
           /\ lg_made' = [lg_made EXCEPT ![c] = r.container \ blobs]
           /\ Did(c, "upload", IF r.res.k = "ok" THEN "ok" ELSE "exists", blob_name(event))
           /\ lg_exc' = [lg_exc EXCEPT ![c] = IF r.res.k = "ok" THEN None_ ELSE r.res]
           /\ lg_pc' = [lg_pc EXCEPT ![c] = IF r.res.k = "ok" THEN "debug" ELSE "storage_error"]
    /\ UNCHANGED <<local_backup, container_client, sink, lg_calls,
                   lg_entry, lg_event, lg_json, lg_result>>
    /\ UNCHANGED urandom_count /\ CipherUntouched

\* lines 192-205: the request fails before it reaches the container
UploadFails(c) ==
    /\ lg_pc[c] = "upload"
    /\ \E e \in StorageFailures : lg_exc' = [lg_exc EXCEPT ![c] = e]
    /\ lg_found' = [lg_found EXCEPT ![c] = blobs]
    /\ Did(c, "upload", "unreachable", blob_name(lg_event[c]))
    /\ lg_pc' = [lg_pc EXCEPT ![c] = "storage_error"]
    /\ UNCHANGED <<logger_vars, lg_entry, lg_event, lg_json, lg_result, lg_made>>
    /\ UNCHANGED urandom_count /\ CipherUntouched

\* line 207: the local sink takes the note that the object was written, and
\* log_event returns
DebugOk(c) ==
    /\ lg_pc[c] = "debug"
    /\ Did(c, "debug", "ok", written_record(blob_name(lg_event[c])))
    /\ lg_pc' = [lg_pc EXCEPT ![c] = "done"]
    /\ lg_result' = [lg_result EXCEPT ![c] = "returned"]
    /\ UNCHANGED <<local_backup, container_client, blobs, sink, lg_calls,
                   lg_entry, lg_event, lg_json, lg_exc, lg_found, lg_made>>
    /\ UNCHANGED urandom_count /\ CipherUntouched

\* line 207: the local sink fails on that note, inside the try of line 190
DebugFail(c) ==
    /\ lg_pc[c] = "debug"
    /\ Did(c, "debug", "fail", written_record(blob_name(lg_event[c])))
    /\ lg_exc' = [lg_exc EXCEPT ![c] = LocalEmitFailure]
    /\ lg_pc' = [lg_pc EXCEPT ![c] = "storage_error"]
    /\ UNCHANGED <<logger_vars, lg_entry, lg_event, lg_json, lg_result, lg_found, lg_made>>
    /\ UNCHANGED urandom_count /\ CipherUntouched

\* a defective handler that logs the exception and lets it go on to the caller
StorageErrorRaised(c) ==
    /\ lg_pc[c] = "storage_error"
    /\ Did(c, "error", "ok", storage_error_record(lg_exc[c]))
    /\ lg_pc' = [lg_pc EXCEPT ![c] = "handler"]
    /\ UNCHANGED <<logger_vars, lg_entry, lg_event, lg_json, lg_exc, lg_result, lg_found, lg_made>>
    /\ UNCHANGED urandom_count /\ CipherUntouched

\* lines 209-211: the exception is logged and dropped, and log_event returns
StorageErrorLogged(c) ==
    /\ lg_pc[c] = "storage_error"
    /\ Did(c, "error", "ok", storage_error_record(lg_exc[c]))
    /\ lg_exc' = [lg_exc EXCEPT ![c] = None_]
    /\ lg_pc' = [lg_pc EXCEPT ![c] = "done"]
    /\ lg_result' = [lg_result EXCEPT ![c] = "returned"]
    /\ UNCHANGED <<local_backup, container_client, blobs, sink, lg_calls,
                   lg_entry, lg_event, lg_json, lg_found, lg_made>>
    /\ UNCHANGED urandom_count /\ CipherUntouched

\* line 210: the local sink fails inside the handler, whose exception leaves
\* _write_to_storage
StorageErrorLogFails(c) ==
    /\ lg_pc[c] = "storage_error"
    /\ Did(c, "error", "fail", storage_error_record(lg_exc[c]))
    /\ lg_exc' = [lg_exc EXCEPT ![c] = LocalEmitFailure]
    /\ lg_pc' = [lg_pc EXCEPT ![c] = "handler"]
    /\ UNCHANGED <<logger_vars, lg_entry, lg_event, lg_json, lg_result, lg_found, lg_made>>
    /\ UNCHANGED urandom_count /\ CipherUntouched

\* lines 176-180: the exception is logged and raised again
HandlerLogged(c) ==
    /\ lg_pc[c] = "handler"
    /\ Did(c, "error", "ok", log_error_record(lg_exc[c], lg_event[c]))
    /\ lg_pc' = [lg_pc EXCEPT ![c] = "done"]
    /\ lg_result' = [lg_result EXCEPT ![c] = "raised"]
    /\ UNCHANGED <<local_backup, container_client, blobs, sink, lg_calls,
                   lg_entry, lg_event, lg_json, lg_exc, lg_found, lg_made>>
    /\ UNCHANGED urandom_count /\ CipherUntouched

\* line 177: the local sink fails inside the handler, whose exception leaves
\* log_event
HandlerLogFails(c) ==
    /\ lg_pc[c] = "handler"
    /\ Did(c, "error", "fail", log_error_record(lg_exc[c], lg_event[c]))
    /\ lg_exc' = [lg_exc EXCEPT ![c] = LocalEmitFailure]
    /\ lg_pc' = [lg_pc EXCEPT ![c] = "done"]
    /\ lg_result' = [lg_result EXCEPT ![c] = "raised"]
    /\ UNCHANGED <<logger_vars, lg_entry, lg_event, lg_json, lg_found, lg_made>>
    /\ UNCHANGED urandom_count /\ CipherUntouched

\* the caller has its answer and may call again
LogReturn(c) ==
    /\ lg_pc[c] = "done"
    /\ lg_pc' = [lg_pc EXCEPT ![c] = "idle"]
    /\ lg_entry' = [lg_entry EXCEPT ![c] = None_]
    /\ lg_event' = [lg_event EXCEPT ![c] = None_]
    /\ lg_json' = [lg_json EXCEPT ![c] = None_]
    /\ lg_exc' = [lg_exc EXCEPT ![c] = None_]
    /\ lg_result' = [lg_result EXCEPT ![c] = "none"]
    /\ lg_trace' = [lg_trace EXCEPT ![c] = <<>>]
    /\ lg_found' = [lg_found EXCEPT ![c] = {}]
    /\ lg_made' = [lg_made EXCEPT ![c] = {}]
    /\ UNCHANGED logger_vars
    /\ UNCHANGED urandom_count /\ CipherUntouched

\* the steps of a call that has begun
LogStep(c) ==
    \/ EmitSkipped(c) \/ EmitOk(c) \/ EmitFail(c)
    \/ Upload(c) \/ UploadFails(c)
    \/ DebugOk(c) \/ DebugFail(c)
    \/ StorageErrorLogged(c) \/ StorageErrorLogFails(c)
    \/ HandlerLogged(c) \/ HandlerLogFails(c)
    \/ LogReturn(c)

----------------------------------------------------------------------------
(* SpecLedger: one caller passes events to log_event of one logger, call    *)
(* after call                                                               *)

View == Chars(<<"v", "i", "e", "w">>)

LedgerTimestamps ==
    {Datetime(2024, 1, 5, 9, 0), Datetime(2024, 1, 5, 23, 30), Datetime(2024, 1, 6, 0, 15)}

\* events as callers build them: two identifiers at three times on two days,
\* of a user, of nobody and of a user with an empty name, and an event whose
\* metadata cannot be serialized
LedgerEvents ==
    {AuditEvent([event_id |-> Lit(id), timestamp |-> ts, event_type |-> PHI_VIEW,
                 action |-> View,
                 user_id |-> u], 0, ts) :
        id \in {"e1", "e2"}, ts \in LedgerTimestamps, u \in {Lit("dr_smith"), Lit(""), None_}}
    \cup
    {AuditEvent([event_id |-> Lit("e1"), timestamp |-> Datetime(2024, 1, 5, 23, 30),
                 event_type |-> PHI_VIEW, action |-> View, user_id |-> Lit("dr_smith"),
                 metadata |-> Dict([handle |-> Opaque])], 0, Datetime(2024, 1, 5, 23, 30))}

\* AuditLogger.__init__ with and without a storage account URL, with local
\* logging on or off
LoggerInit ==
    /\ local_backup \in BOOLEAN
    /\ container_client \in {None_, TheContainerClient}
    /\ blobs = {}
    /\ sink = {}
    /\ lg_calls = 0
    /\ LogCallsIdle

LedgerInit == LoggerInit /\ EngineIdle /\ CallersIdle /\ last = NoLast /\ FieldsIdle /\ AppIdle

\* log_event(event) on an event the caller built
LogEvent(c) ==
    /\ \E event \in LedgerEvents : Begin(c, [op |-> "log_event", args |-> event], event)
    /\ UNCHANGED urandom_count /\ CipherUntouched

LedgerNext == LogEvent(1) \/ LogStep(1)

SpecLedger == LedgerInit /\ [][LedgerNext]_vars

----------------------------------------------------------------------------
(* SpecLedgerRace: concurrent callers pass events to log_event of one       *)
(* logger whose local sink works                                            *)

\* one identifier on either day and another identifier
RaceEvents ==
    {AuditEvent([event_id |-> Lit(x[1]), timestamp |-> x[2], event_type |-> PHI_VIEW,
                 action |-> View, user_id |-> x[3]], 0, x[2]) :
        x \in {<<"e1", Datetime(2024, 1, 5, 23, 30), Lit("dr_smith")>>,
               <<"e1", Datetime(2024, 1, 6, 0, 15), Lit("nurse_jones")>>,
               <<"e1", Datetime(2024, 1, 5, 9, 0), None_>>}}

LogEventRace(c) ==
    /\ \E event \in RaceEvents : Begin(c, [op |-> "log_event", args |-> event], event)
    /\ UNCHANGED urandom_count /\ CipherUntouched

\* the steps of a call whose logger calls succeed
LogStepQuiet(c) ==
    \/ EmitSkipped(c) \/ EmitOk(c)
    \/ Upload(c) \/ UploadFails(c)
    \/ DebugOk(c)
    \/ StorageErrorLogged(c)
    \/ LogReturn(c)

LedgerRaceNext == \E c \in Loggers : LogEventRace(c) \/ LogStepQuiet(c)

SpecLedgerRace == LedgerInit /\ [][LedgerRaceNext]_vars

----------------------------------------------------------------------------
(* SpecAudit: one caller uses log_phi_access, log_authentication and        *)
(* log_security_event of the logger get_audit_logger() makes, which is      *)
(* local-only                                                               *)

PhiActions ==
    {Chars(<<"v", "i", "e", "w">>), Chars(<<"r", "e", "a", "d">>),
     Chars(<<"c", "r", "e", "a", "t", "e">>), Chars(<<"u", "p", "d", "a", "t", "e">>),
     Chars(<<"m", "o", "d", "i", "f", "y">>), Chars(<<"d", "e", "l", "e", "t", "e">>),
     Chars(<<"e", "x", "p", "o", "r", "t">>),
     Chars(<<"V", "I", "E", "W">>), Chars(<<"D", "e", "l", "e", "t", "e">>),
     Chars(<<"e", "X", "p", "O", "r", "T">>), Chars(<<"M", "o", "d", "i", "f", "y">>),
     Chars(<<"p", "r", "i", "n", "t">>), Chars(<<"d", "e", "l", "e", "t", "e", " ">>),
     Chars(<<>>)}

PhiResults == {Lit("success"), Lit("failure"), Lit("denied")}

PhiAccessArgs ==
    [user_id : {Lit("dr_smith")}, patient_id_hash : {Lit("5e884898da28")},
     action : PhiActions, resource_type : {Lit("encounter")},
     resource_id : {Lit("enc_abcdef123456")}, result : PhiResults,
     ip_address : {None_}, metadata : {None_}]
    \cup
    [user_id : {Lit("dr_smith")}, patient_id_hash : {Lit("5e884898da28")},
     action : {Chars(<<"v", "i", "e", "w">>)}, resource_type : {Lit("encounter")},
     resource_id : {Lit("enc_abcdef123456")}, result : {Lit("success")},
     ip_address : {Lit("10.0.0.7")}, metadata : {Dict([purpose |-> Lit("chart review")])}]

AuthenticationArgs ==
    [user_id : {Lit("dr_smith")}, success : BOOLEAN,
     ip_address : {None_}, reason : {None_, Lit("bad password")}]

SecurityEventArgs ==
    [event_type : {SECURITY_VIOLATION, UNAUTHORIZED_ACCESS},
     severity : {INFO, WARNING, ERROR, CRITICAL},
     action : {Chars(<<"p", "r", "o", "b", "e">>)},
     user_id : {None_}, ip_address : {None_}, metadata : {None_}]

\* the clock's reading when an event is built
ApiClock == {Datetime(2024, 1, 5, 23, 30)}

AuditInit ==
    LedgerIdle /\ EngineIdle /\ CallersIdle /\ last = NoLast /\ FieldsIdle /\ AppIdle

\* a convenience constructor builds its event, drawing the identifier from
\* uuid4, and passes it to log_event
BeginBuilt(c, op, a, event) ==
    /\ lg_calls < MaxApiCalls
    /\ Begin(c, [op |-> op, args |-> a], event)
    /\ urandom_count' = urandom_count + 1
    /\ CipherUntouched

LogPhiAccess(c) ==
    \E a \in PhiAccessArgs, now \in ApiClock :
        BeginBuilt(c, "log_phi_access", a, phi_access_event(a, urandom_count, now))

LogAuthentication(c) ==
    \E a \in AuthenticationArgs, now \in ApiClock :
        BeginBuilt(c, "log_authentication", a, authentication_event(a, urandom_count, now))

LogSecurityEvent(c) ==
    \E a \in SecurityEventArgs, now \in ApiClock :
        BeginBuilt(c, "log_security_event", a, security_event(a, urandom_count, now))

\* the arguments of a caller that passes AuditEvent its required fields only
RequiredFieldsArgs ==
    [event_type : {LOGOUT, CONFIG_CHANGE, PHI_DELETE},
     action : {Chars(<<"l", "o", "g", "o", "u", "t">>)}]

\* log_event(AuditEvent(event_type=..., action=...))
LogBuiltEvent(c) ==
    \E a \in RequiredFieldsArgs, now \in ApiClock :
        BeginBuilt(c, "log_event", a, AuditEvent(a, urandom_count, now))

\* the steps of a call on a local-only logger
LogStepLocal(c) ==
    \/ EmitOk(c) \/ EmitFail(c)
    \/ HandlerLogged(c) \/ HandlerLogFails(c)
    \/ LogReturn(c)

AuditNext ==
    \/ LogPhiAccess(1) \/ LogAuthentication(1) \/ LogSecurityEvent(1)
    \/ LogBuiltEvent(1)
    \/ LogStepLocal(1)

SpecAudit == AuditInit /\ [][AuditNext]_vars

----------------------------------------------------------------------------
(* Claims about log_event, checked under SpecLedger *)

Steps(c) == DOMAIN lg_trace[c]
Attempted(c, op) == \E i \in Steps(c) : lg_trace[c][i].op = op
Outcome(c, op, res) == \E i \in Steps(c) : lg_trace[c][i].op = op /\ lg_trace[c][i].res = res

\* the call's attempt on the container, if any, came after an attempt to hand
\* the event's record to the local sink, and a call that is over made that
\* attempt
EmitsFirst(c) ==
    /\ \A j \in Steps(c) :
          lg_trace[c][j].op = "upload" => \E i \in 1..(j - 1) : lg_trace[c][i].op = "info"
    /\ lg_pc[c] = "done" => Attempted(c, "info")

\* C11 as stated: every log_event call attempts the local emission, and does
\* so before any attempt to write the event to the durable backend.
\* Violated: a logger built with local_backup off never emits, and an event
\* that cannot be serialized raises before the emission.
C11_AlwaysEmitsFirst == \A c \in Loggers : EmitsFirst(c)

\* C11 amended: every log_event call of a logger with local_backup on, for an
\* event that serializes, attempts the local emission of the event's record,
\* and does so before any attempt to write the event to the durable backend.
C11_EmitsFirstWhenEnabled ==
    \A c \in Loggers : (local_backup /\ lg_json[c] # None_) => EmitsFirst(c)

\* C11 witness: a call that emitted locally and then reached the container
C11_Witness ==
    /\ lg_pc[1] = "done" /\ local_backup
    /\ Len(lg_trace[1]) >= 2
    /\ lg_trace[1][1].op = "info" /\ lg_trace[1][2].op = "upload"

Over(c) == lg_pc[c] = "done"
Returned(c) == Over(c) /\ lg_result[c] = "returned"
Raised(c) == Over(c) /\ lg_result[c] = "raised"

\* the call's write to the container failed
DurableWriteFailed(c) == Outcome(c, "upload", "exists") \/ Outcome(c, "upload", "unreachable")

\* some call of the local logger failed during the call
SinkFailed(c) == \E i \in Steps(c) : lg_trace[c][i].op # "upload" /\ lg_trace[c][i].res = "fail"

DurableErrors == StorageFailures \cup {Raise("ResourceExistsError")}

\* C12: when the durable write fails (the store unreachable, an authentication
\* error, the object already there) and every call of the local logger
\* succeeds, log_event returns normally; and whatever the local logger does,
\* the exception a caller gets is never the durable write's.
C12_DurableFailureSwallowed ==
    \A c \in Loggers :
        /\ (Over(c) /\ DurableWriteFailed(c) /\ ~SinkFailed(c)) =>
               (lg_result[c] = "returned" /\ lg_exc[c] = None_)
        /\ Raised(c) => lg_exc[c] \notin DurableErrors

\* C12 witness: the store was unreachable, the failure was logged locally and
\* the call returned
C12_Witness ==
    /\ Returned(1)
    /\ Outcome(1, "upload", "unreachable")
    /\ Outcome(1, "error", "ok")

\* C13: whenever log_event returns normally the local sink has received the
\* event's record, so that a swallowed durable-write failure never leaves an
\* event in no sink at all.
\* Violated: _write_to_storage drops the failure "because local logging
\* already succeeded" (line 211) also when local_backup is off.
C13_ReturnedMeansReceived ==
    \A c \in Loggers : Returned(c) => audit_record(lg_event[c]) \in sink

\* C14 as stated: when the local sink fails during log_event, log_event does
\* not return normally.
\* Violated: a failure of the debug note that follows a successful write to
\* the container is caught by the handler of line 209 and dropped.
C14_AnySinkFailureRaises ==
    \A c \in Loggers : (Over(c) /\ SinkFailed(c)) => lg_result[c] = "raised"

\* C14 amended: when the local sink fails during log_event on the event's
\* record or on an error record, log_event raises to its caller and the
\* exception is the sink's.
C14_EmitFailureRaises ==
    \A c \in Loggers :
        (Over(c) /\ (Outcome(c, "info", "fail") \/ Outcome(c, "error", "fail"))) =>
            (lg_result[c] = "raised" /\ lg_exc[c] = LocalEmitFailure)

\* C14 witness: the emission of the event's record failed and the call raised
C14_Witness ==
    /\ Raised(1)
    /\ Outcome(1, "info", "fail")
    /\ Outcome(1, "error", "ok")
    /\ lg_exc[1] = LocalEmitFailure

\* the objects the container held, when the call reached it, for events with
\* the identifier of the call's event
StoredUnderId(c) == {b \in lg_found[c] : b.content.v.event_id = lg_event[c].event_id}

\* the call reached the container while it held an event of the same identifier
ReusesStoredId(c) == Attempted(c, "upload") /\ StoredUnderId(c) # {}

\* C15: with a durable backend configured, a log_event call for an event that
\* reuses the identifier of an already stored event has its durable write
\* rejected (what is stored keeps its content), does not raise to the caller
\* (the local logger working), and the local sink receives the record.
\* Violated: with local_backup off the rejected record reaches no sink, and an
\* event that reuses the identifier on another day gets an object of its own.
C15_ReusedIdRejected ==
    \A c \in Loggers :
        (Over(c) /\ ReusesStoredId(c) /\ ~SinkFailed(c)) =>
            /\ lg_made[c] = {}
            /\ lg_found[c] \subseteq blobs
            /\ lg_result[c] = "returned"
            /\ audit_record(lg_event[c]) \in sink

----------------------------------------------------------------------------
(* Claims about the container, checked under SpecLedgerRace *)

\* C16: the durable store is append-only under the logger: whatever the
\* interleaving of concurrent log_event calls and the order in which they
\* complete, no step removes or changes an object the container holds; the
\* set of stored objects only grows.
C16_AppendOnly == [][\A b \in blobs : b \in blobs']_vars

\* C16 witness: two calls in progress at once wrote different events under
\* one object name; the first to arrive was stored, the other was refused,
\* and the one that arrived first is still on its way out after the other
C16_Witness ==
    \E c, d \in Loggers :
        /\ c # d
        /\ Outcome(c, "upload", "ok") /\ lg_pc[c] = "debug"
        /\ Outcome(d, "upload", "exists") /\ Returned(d)
        /\ blob_name(lg_event[c]) = blob_name(lg_event[d])
        /\ lg_event[c] # lg_event[d]
        /\ lg_made[c] \subseteq blobs /\ lg_made[c] # {}

----------------------------------------------------------------------------
(* Claims about the stored object, checked under SpecLedger *)

\* the date partitions and ISO-8601 texts of the timestamps of LedgerTimestamps
PartitionText(ts) ==
    CASE ts = Datetime(2024, 1, 5, 9, 0) -> "2024/01/05"
      [] ts = Datetime(2024, 1, 5, 23, 30) -> "2024/01/05"
      [] ts = Datetime(2024, 1, 6, 0, 15) -> "2024/01/06"

IsoText(ts) ==
    CASE ts = Datetime(2024, 1, 5, 9, 0) -> "2024-01-05T09:00:00+00:00"
      [] ts = Datetime(2024, 1, 5, 23, 30) -> "2024-01-05T23:30:00+00:00"
      [] ts = Datetime(2024, 1, 6, 0, 15) -> "2024-01-06T00:15:00+00:00"

\* the event whose JSON text an object holds
StoredEvent(b) == b.content.v

\* C17: a log_event call whose durable write succeeds creates exactly one
\* object; its name is {YYYY}/{MM}/{DD}/{event_id}.json with the date of the
\* event's own timestamp, and its content is the JSON text of the full event.
C17_OneObjectPerEvent ==
    \A c \in Loggers :
        Outcome(c, "upload", "ok") =>
            /\ Cardinality(lg_made[c]) = 1
            /\ \A b \in lg_made[c] :
                  /\ b.name = Lit(PartitionText(lg_event[c].timestamp) \o "/"
                                  \o lg_event[c].event_id.v \o ".json")
                  /\ b.content.k = "json"
                  /\ b.content.v = lg_event[c]
            /\ blobs = lg_found[c] \cup lg_made[c]

\* C17 witness: an event stamped just before midnight was stored under its
\* own day after an event of the next day had been stored
C17_Witness ==
    /\ Returned(1) /\ Outcome(1, "upload", "ok")
    /\ lg_event[1].timestamp = Datetime(2024, 1, 5, 23, 30)
    /\ lg_event[1].event_id = Lit("e2")
    /\ \E b \in lg_made[1] : b.name = Lit("2024/01/05/e2.json")
    /\ \E b \in lg_found[1] : b.name = Lit("2024/01/06/e2.json")

\* C18 as stated: the metadata of every stored object mirrors the stored
\* event: its event_type, severity, user_id and timestamp entries equal the
\* event's fields (the enum members by value, the timestamp as ISO-8601 text).
\* Violated: an event without a user is stored with user_id "anonymous".
C18_MetadataMirrorsEvent ==
    \A b \in blobs :
        /\ b.metadata.event_type = Lit(StoredEvent(b).event_type.v)
        /\ b.metadata.severity = Lit(StoredEvent(b).severity.v)
        /\ b.metadata.user_id = StoredEvent(b).user_id
        /\ b.metadata.timestamp = Lit(IsoText(StoredEvent(b).timestamp))

\* C18 amended: the event_type, severity and timestamp entries equal the
\* event's fields, and the user_id entry equals the event's user_id when that
\* is a non-empty string and is "anonymous" when it is None or empty.
C18_MetadataMirrorsOrAnonymous ==
    \A b \in blobs :
        /\ b.metadata.event_type = Lit(StoredEvent(b).event_type.v)
        /\ b.metadata.severity = Lit(StoredEvent(b).severity.v)
        /\ b.metadata.user_id =
              IF StoredEvent(b).user_id \in {None_, Lit("")}
              THEN Lit("anonymous") ELSE StoredEvent(b).user_id
        /\ b.metadata.timestamp = Lit(IsoText(StoredEvent(b).timestamp))

\* C18 witness: the container holds an event of a user, an event of nobody
\* and an event whose user is the empty string
C18_Witness ==
    /\ \E b \in blobs : StoredEvent(b).user_id = Lit("dr_smith")
                          /\ b.metadata.user_id = Lit("dr_smith")
    /\ \E b \in blobs : StoredEvent(b).user_id = None_
                          /\ b.metadata.user_id = Lit("anonymous")
    /\ \E b \in blobs : StoredEvent(b).user_id = Lit("")
                          /\ b.metadata.user_id = Lit("anonymous")

----------------------------------------------------------------------------
(* Claims about the convenience constructors, checked under SpecAudit *)

InCall(c, op) == lg_pc[c] # "idle" /\ lg_entry[c].op = op

Text(cs) == Chars(cs)

\* the event type the mapping is to give each action of PhiActions
ExpectedPhiType(action) ==
    CASE action \in {Text(<<"v", "i", "e", "w">>), Text(<<"r", "e", "a", "d">>),
                     Text(<<"V", "I", "E", "W">>)} -> PHI_VIEW
      [] action = Text(<<"c", "r", "e", "a", "t", "e">>) -> PHI_CREATE
      [] action \in {Text(<<"u", "p", "d", "a", "t", "e">>), Text(<<"m", "o", "d", "i", "f", "y">>),
                     Text(<<"M", "o", "d", "i", "f", "y">>)} -> PHI_UPDATE
      [] action \in {Text(<<"d", "e", "l", "e", "t", "e">>),
                     Text(<<"D", "e", "l", "e", "t", "e">>)} -> PHI_DELETE
      [] action \in {Text(<<"e", "x", "p", "o", "r", "t">>),
                     Text(<<"e", "X", "p", "O", "r", "T">>)} -> PHI_EXPORT
      [] OTHER -> PHI_VIEW

\* C19: log_phi_access gives every action string an event type and never
\* fails to: view/read give PHI_VIEW, create PHI_CREATE, update/modify
\* PHI_UPDATE, delete PHI_DELETE, export PHI_EXPORT, whatever the case of the
\* letters, and every other string gives PHI_VIEW.
C19_ActionMapping ==
    \A c \in Loggers :
        InCall(c, "log_phi_access") =>
            /\ lg_event[c].event_type = ExpectedPhiType(lg_entry[c].args.action)
            /\ lg_event[c].action = lg_entry[c].args.action

\* C19 witness: an export spelled in mixed case was recorded as PHI_EXPORT
\* after an unknown action had been recorded as PHI_VIEW
C19_Witness ==
    /\ Returned(1) /\ InCall(1, "log_phi_access")
    /\ lg_entry[1].args.action = Text(<<"e", "X", "p", "O", "r", "T">>)
    /\ audit_record(lg_event[1]) \in sink
    /\ lg_event[1].event_type = PHI_EXPORT
    /\ \E rec \in sink : /\ rec.kw.action = Text(<<"p", "r", "i", "n", "t">>)
                          /\ rec.kw.event_type = Lit("phi_view")

\* C20: log_authentication records WARNING, LOGIN_FAILURE and result failure
\* when success is false, and INFO, LOGIN_SUCCESS and result success when it
\* is true; log_phi_access records WARNING when the result is failure or
\* denied and INFO when it is success; log_security_event records the severity
\* passed to it; an event built without a severity has severity INFO.
C20_SeverityInference ==
    \A c \in Loggers :
        /\ InCall(c, "log_authentication") =>
              LET a == lg_entry[c].args
                  e == lg_event[c]
              IN  IF a.success
                  THEN e.severity = INFO /\ e.event_type = LOGIN_SUCCESS
                       /\ e.result = Lit("success")
                  ELSE e.severity = WARNING /\ e.event_type = LOGIN_FAILURE
                       /\ e.result = Lit("failure")
        /\ InCall(c, "log_phi_access") =>
              LET a == lg_entry[c].args
                  e == lg_event[c]
              IN  /\ e.result = a.result
                  /\ a.result \in {Lit("failure"), Lit("denied")} => e.severity = WARNING
                  /\ a.result = Lit("success") => e.severity = INFO
        /\ InCall(c, "log_security_event") => lg_event[c].severity = lg_entry[c].args.severity
        /\ InCall(c, "log_event") => lg_event[c].severity = INFO

\* C20 witness: a denied PHI access was recorded as a warning after a failed
\* login had been
C20_Witness ==
    /\ Returned(1) /\ InCall(1, "log_phi_access")
    /\ lg_entry[1].args.result = Lit("denied")
    /\ \E rec \in sink : /\ rec.kw.event_id = lg_event[1].event_id
                          /\ rec.kw.severity = Lit("warning")
    /\ \E rec \in sink : /\ rec.kw.event_type = Lit("login_failure")
                          /\ rec.kw.severity = Lit("warning")
                          /\ rec.kw.result = Lit("failure")

----------------------------------------------------------------------------
(* Claims C21-C30 *)

\* the call's serialization (line 158) or its local emission (lines 162-170)
\* raised
FailedBeforeStore(c) ==
    /\ lg_pc[c] # "idle"
    /\ \/ lg_json[c] = None_
       \/ Outcome(c, "info", "fail")

\* C26: in log_event, when serialization or the local emission raises, the
\* durable write is not attempted for that event: the call raises, no step of
\* the call changes the container or hands the event's record to the local
\* sink, so the call leaves the event in neither sink.
C26_NoStoreAfterLocalFailure ==
    /\ [](\A c \in Loggers :
            FailedBeforeStore(c) =>
                /\ ~Attempted(c, "upload")
                /\ ~Outcome(c, "info", "ok")
                /\ lg_made[c] = {}
                /\ Over(c) => lg_result[c] = "raised")
    /\ [][(\E c \in Loggers : FailedBeforeStore(c) /\ lg_pc'[c] # "idle" /\ lg_entry' = lg_entry)
            => (blobs' = blobs /\ sink' = sink)]_vars

\* C26 witness: a logger with a container raised on a failed local emission
\* and the container is as empty as before
C26_Witness ==
    /\ Raised(1)
    /\ Truthy(container_client)
    /\ Outcome(1, "info", "fail")
    /\ Outcome(1, "error", "ok")
    /\ ~Attempted(1, "upload")
    /\ blobs = {}

\* decrypt_fields was just called on a stored record one of whose listed
\* envelopes cannot pass authentication: it sits under another field's name, or
\* the engine has no secret store and so no key that sealed anything
AuthMustFail ==
    /\ fl_stage = "decrypted" /\ fl_from \in {"encrypted", "moved"}
    /\ \/ fl_from = "moved" /\ fl_moved.to \in Range(fl_call.fields)
       \/ ~Truthy(key_vault_url) /\ Processed(fl_call.data, fl_call.fields) # {}

\* C25: decrypt_fields is all-or-nothing: when the decryption of a listed
\* field fails, the call raises that failure and yields no record, and the
\* dict it was given is as it was; a listed envelope that cannot pass
\* authentication makes the call raise.
C25_AllOrNothing ==
    fl_call.op = "decrypt_fields" =>
        /\ fl_at # "" => (fl_out.k = "raise" /\ fl_data = fl_call.data)
        /\ AuthMustFail => (fl_out.k = "raise" /\ fl_data = fl_call.data)
        /\ fl_out.k = "ok" => fl_at = ""

\* C25 witness: the first listed field was decrypted, the second failed
\* authentication, and the call raised with the input as it was
C25_Witness ==
    /\ fl_stage = "decrypted" /\ fl_from = "moved"
    /\ Len(fl_call.fields) = 2
    /\ fl_call.fields[2] = fl_moved.to /\ fl_at = fl_moved.to
    /\ fl_call.fields[1] # fl_moved.to
    /\ fl_call.fields[1] \in Processed(fl_call.data, fl_call.fields)
    /\ fl_out = Raise("InvalidTag")
    /\ fl_data = fl_call.data

----------------------------------------------------------------------------
(* SpecFieldValues: records whose fields hold values of every kind the      *)
(* helpers tell apart (strings, numbers, booleans, None) are encrypted      *)
(* field by field, stored and decrypted.                                     *)

ValueFieldNames == {"a", "b"}
AnyValues == {Lit("x"), Lit(""), PyInt(5), PyInt(0), PyBool(TRUE), PyBool(FALSE), None_}
ValueRecords == UNION {[D -> AnyValues] : D \in SUBSET ValueFieldNames}

\* encrypt_fields(data, sensitive_fields) on a record of values of any kind
EncryptValues ==
    /\ fl_stage = "start"
    /\ \E data \in ValueRecords, sensitive_fields \in FieldLists, up \in BOOLEAN :
         LET r == encrypt_fields(key_cache, urandom_count, up, data, sensitive_fields)
         IN  /\ EngineAfter(r)
             /\ fl_call' = [op |-> "encrypt_fields", data |-> data, fields |-> sensitive_fields]
             /\ fl_data' = r.data
             /\ fl_out' = r.res
             /\ fl_at' = r.at
             /\ fl_plain' = [data |-> data, fields |-> sensitive_fields]
             /\ fl_stored' = IF r.res.k = "ok" THEN r.res.v ELSE fl_stored
             /\ fl_stage' = IF r.res.k = "ok" THEN "encrypted" ELSE "failed"
    /\ UNCHANGED <<ledger_vars, app_vars, fl_moved, fl_from, caller_vars, last>>

\* decrypt_fields(stored, sensitive_fields) with the list the record was
\* encrypted with
DecryptStored ==
    /\ fl_stage = "encrypted"
    /\ \E up \in BOOLEAN :
         LET r == decrypt_fields(key_cache, urandom_count, up, fl_stored, fl_plain.fields)
         IN  /\ EngineAfter(r)
             /\ fl_call' = [op |-> "decrypt_fields", data |-> fl_stored,
                            fields |-> fl_plain.fields]
             /\ fl_data' = r.data
             /\ fl_out' = r.res
             /\ fl_at' = r.at
    /\ fl_from' = fl_stage
    /\ fl_stage' = "decrypted"
    /\ UNCHANGED <<ledger_vars, app_vars, fl_plain, fl_stored, fl_moved, caller_vars, last>>

FieldValuesNext == EncryptValues \/ DecryptStored

SpecFieldValues == FieldsInit /\ [][FieldValuesNext]_vars

\* the values Python holds false, as the claim lists them
StaysInClear(v) == v \in {PyInt(0), PyBool(FALSE), None_, Lit("")}

\* the string form of each value of AnyValues
StrForm(v) ==
    CASE v = PyInt(5) -> Lit("5")
      [] v = PyInt(0) -> Lit("0")
      [] v = PyBool(TRUE) -> Lit("True")
      [] v = PyBool(FALSE) -> Lit("False")
      [] v = None_ -> Lit("None")
      [] OTHER -> v

\* the fields of the record that the call is to encrypt
ToEncrypt == {f \in DOMAIN fl_plain.data : f \in Range(fl_plain.fields)
                                            /\ ~StaysInClear(fl_plain.data[f])}

\* the stored record holds an envelope for each field to encrypt, the string
\* form of the field's value was sealed (a field listed twice is sealed twice,
\* the second time as the envelope of the first), and every other field is
\* in clear
StoredAsClaimed ==
    /\ DOMAIN fl_stored = DOMAIN fl_plain.data
    /\ \A f \in DOMAIN fl_plain.data :
          IF f \in ToEncrypt
          THEN /\ fl_stored[f] \in Envelopes
               /\ \E i \in issued : i.pt = StrForm(fl_plain.data[f]) /\ i.ad = Lit(f)
          ELSE fl_stored[f] = fl_plain.data[f]

\* the record decrypt_fields is to give back
DecryptedAsClaimed ==
    [f \in DOMAIN fl_plain.data |->
        IF f \in ToEncrypt THEN StrForm(fl_plain.data[f]) ELSE fl_plain.data[f]]

\* C27: encrypt_fields encrypts a listed field only when it is present with a
\* truthy value (0, False, None and the empty string stay in clear), and it
\* encrypts the string form of the value; decrypt_fields(encrypt_fields(record))
\* yields, for a listed field holding a non-string value v, the string str(v).
\* A call that cannot reach the secret store is left aside.
C27_TruthyAsString ==
    /\ fl_stage \in {"encrypted", "decrypted"} => StoredAsClaimed
    /\ (fl_stage = "decrypted" /\ fl_out # Raise("KeyUnavailable")) =>
           fl_out = Ok(DecryptedAsClaimed)

\* C27 where it holds: on an engine with a secret store
C27_WithSecretStore ==
    Truthy(key_vault_url) => C27_TruthyAsString

\* a record with a listed number and a listed False came back with the number
\* as a string and False untouched
C27_Witness ==
    /\ fl_stage = "decrypted" /\ fl_out.k = "ok"
    /\ \E f, g \in ToEncrypt \cup DOMAIN fl_plain.data :
          /\ f \in ToEncrypt /\ fl_plain.data[f] = PyInt(5) /\ fl_out.v[f] = Lit("5")
          /\ g \in Range(fl_plain.fields) /\ fl_plain.data[g] = PyBool(FALSE)
          /\ fl_out.v[g] = PyBool(FALSE)

----------------------------------------------------------------------------
(* security/encryption.py: what encrypt(), decrypt() and hash_identifier()  *)
(* show their caller and the log.                                            *)

\* most calls of one run
MaxObserved == 4

\* hashes.SHA256(): a digest of 32 bytes
SHA256Len == 32

\* digest.update(b); digest.finalize(): the SHA-256 digest of b
SHA256(b) == [k |-> "sha256", v |-> b]

\* bytes.hex(): two lowercase hexadecimal digits per byte
hex(b) == [k |-> "hex", v |-> b]

\* len(s) of a str
py_len(s) ==
    CASE s.k = "lit" -> Len(s.v)
      [] s.k = "hex" -> 2 * (IF s.v.k = "sha256" THEN SHA256Len ELSE s.v.v.len)

\* hash_identifier(), lines 170-172
hash_identifier(identifier) == hex(SHA256(Utf8Encode(identifier)))

\* a hash_identifier keyed with the encryption key
hash_identifier_keyed(cache, count, up, identifier) ==
    LET g == get_encryption_key(cache, count, up)
    IN  [res |-> IF g.res.k = "raise" THEN g.res
                 ELSE Ok(hex(SHA256(Concat(g.res.v, Utf8Encode(identifier))))),
         cache |-> g.cache, count |-> g.count, fetches |-> g.fetches,
         keys |-> IF g.res.k = "raise" THEN {} ELSE {g.res.v}]

\* hash_identifier() as a method of the engine, lines 160-172
hash_identifier_call(cache, count, up, identifier) ==
    [res |-> Ok(hash_identifier(identifier)),
     cache |-> cache, count |-> count, fetches |-> 0, keys |-> {}]

\* str(e) of the exceptions the engine meets; InvalidTag carries no message
str_e(e) ==
    Lit(CASE e = "InvalidTag" -> ""
          [] e = "KeyUnavailable" -> "secret store request failed"
          [] e = "binascii.Error" -> "Incorrect padding"
          [] e = "ValueError" -> "Nonce must be between 8 and 128 bytes"
          [] e = "UnicodeDecodeError" -> "'utf-8' codec can't decode byte"
          [] OTHER -> "object has no attribute 'encode'")

\* a record handed to the structlog logger
LogRecord(level, msg, kw) == [level |-> level, msg |-> msg, kw |-> kw]

\* what _get_encryption_key logs, lines 65-81, given its outcome g
key_log(cache, g) ==
    IF Truthy(cache) THEN <<>>
    ELSE IF ~Truthy(key_vault_url)
    THEN <<LogRecord("warning", "Using generated key - NOT FOR PRODUCTION USE", <<>>)>>
    ELSE IF g.res.k = "ok"
    THEN <<LogRecord("info", "Encryption key retrieved from Key Vault", <<>>)>>
    ELSE <<LogRecord("error", "Failed to retrieve encryption key",
                     [error |-> str_e(g.res.v)])>>

\* an encrypt() that logs what it encrypted
encrypt_log_verbose(plaintext, associated_data, res) ==
    IF res.k = "ok"
    THEN LogRecord("debug", "PHI data encrypted",
                   [data_length |-> py_len(plaintext), has_aad |-> Truthy(associated_data),
                    data |-> plaintext])
    ELSE LogRecord("error", "Encryption failed", [error |-> str_e(res.v)])

\* what encrypt() logs, lines 111-113 and 118, given its outcome res
encrypt_log(plaintext, associated_data, res) ==
    IF res.k = "ok"
    THEN LogRecord("debug", "PHI data encrypted",
                   [data_length |-> py_len(plaintext), has_aad |-> Truthy(associated_data)])
    ELSE LogRecord("error", "Encryption failed", [error |-> str_e(res.v)])

\* what decrypt() logs, lines 150-152 and 157, given its outcome res
decrypt_log(associated_data, res) ==
    IF res.k = "ok"
    THEN LogRecord("debug", "PHI data decrypted",
                   [data_length |-> py_len(res.v), has_aad |-> Truthy(associated_data)])
    ELSE LogRecord("error", "Decryption failed", [error |-> str_e(res.v)])

----------------------------------------------------------------------------
(* SpecObserve: one caller encrypts, decrypts and hashes; envelopes reach   *)
(* decrypt() intact, altered in transit, sealed by another key, or as text   *)
(* that is no envelope.                                                      *)

Identifiers == {Lit("PATIENT-12345"), Lit("")}
ObservedAssocData == {None_, Lit("ssn")}

\* a key of another deployment and an envelope sealed with it
ForeignKey == Random(-1, KeyLen)
ForeignEnvelope ==
    encrypt(ForeignKey, Random(-1, NonceLen), Lit("John Doe"), None_).v

\* the envelope e with bytes altered: in the ciphertext or tag, or in the nonce
Tampered(e) ==
    LET data == B64Decode(e).v
    IN  {B64Encode(Concat(NonceOf(data), [k |-> "junk", v |-> CiphertextOf(data)])),
         B64Encode(Concat(Random(0, NonceLen), CiphertextOf(data)))} \ {e}

\* texts that are no envelope: not base64, or too short to hold a nonce
Malformed == {Lit("John Doe"), Lit("")}

DecryptInputs ==
    {[cause |-> "intact", env |-> e] : e \in Envelopes}
    \cup {[cause |-> "tampered", env |-> t] : t \in UNION {Tampered(e) : e \in Envelopes}}
    \cup {[cause |-> "foreign", env |-> ForeignEnvelope]}
    \cup {[cause |-> "malformed", env |-> m] : m \in Malformed}

NoObserved ==
    [op |-> "none", arg |-> None_, ad |-> None_, res |-> Pending, fetches |-> 0,
     cache_before |-> None_, count_before |-> 0, keys |-> {}, log |-> <<>>,
     why |-> "none", causes |-> {}]

ObserveInit == EngineInit /\ CallersIdle /\ last = NoObserved /\ FieldsIdle /\ LedgerIdle /\ AppIdle

\* what stands between the envelope and its plaintext, "none" if nothing
\* does: the key was not resolved, the text is no envelope, its bytes were
\* altered, the key is not the sealing key, or the associated data differ
WhyNot(x, ad, keys) ==
    IF keys = {} THEN "no_key"
    ELSE IF x.cause \in {"malformed", "tampered"} THEN x.cause
    ELSE IF x.cause = "foreign" THEN "wrong_key"
    ELSE LET i == CHOOSE j \in issued : j.env = x.env
         IN  IF i.key \notin keys THEN "wrong_key"
             ELSE IF Aad(ad) # Aad(i.ad) THEN "aad_mismatch"
             ELSE "none"

\* encrypt(s, ad)
EncryptLogged ==
    /\ calls < MaxObserved
    /\ \E s \in Plaintexts, ad \in ObservedAssocData, up \in BOOLEAN :
         LET g == get_encryption_key(key_cache, urandom_count, up)
             r == encrypt_call(key_cache, urandom_count, up, s, ad)
         IN  /\ key_cache' = r.cache
             /\ urandom_count' = r.count
             /\ resolved' = resolved \cup r.keys
             /\ issued' = IF r.res.k = "ok"
                          THEN issued \cup {[env |-> r.res.v, pt |-> s, ad |-> ad,
                                             key |-> CHOOSE kb \in r.keys : TRUE,
                                             nonce |-> r.nonce]}
                          ELSE issued
             /\ encrypts' = IF r.res.k = "ok" THEN encrypts + 1 ELSE encrypts
             /\ last' = [op |-> "encrypt", arg |-> s, ad |-> ad, res |-> r.res,
                         fetches |-> r.fetches, cache_before |-> key_cache,
                         count_before |-> urandom_count, keys |-> r.keys,
                         log |-> key_log(key_cache, g) \o <<encrypt_log(s, ad, r.res)>>,
                         why |-> "none", causes |-> last.causes]
    /\ calls' = calls + 1
    /\ UNCHANGED <<ledger_vars, app_vars, key_vault_url, vault_secret, caller_vars, field_vars>>

\* decrypt(e, ad)
DecryptLogged ==
    /\ calls < MaxObserved
    /\ \E x \in DecryptInputs, ad \in ObservedAssocData, up \in BOOLEAN :
         LET g == get_encryption_key(key_cache, urandom_count, up)
             r == decrypt_call(key_cache, urandom_count, up, x.env, ad)
             why == WhyNot(x, ad, r.keys)
         IN  /\ key_cache' = r.cache
             /\ urandom_count' = r.count
             /\ resolved' = resolved \cup r.keys
             /\ last' = [op |-> "decrypt", arg |-> x.env, ad |-> ad, res |-> r.res,
                         fetches |-> r.fetches, cache_before |-> key_cache,
                         count_before |-> urandom_count, keys |-> r.keys,
                         log |-> key_log(key_cache, g) \o <<decrypt_log(ad, r.res)>>,
                         why |-> why, causes |-> last.causes \cup {why}]
    /\ calls' = calls + 1
    /\ UNCHANGED <<ledger_vars, app_vars, key_vault_url, vault_secret, issued, encrypts,
                   caller_vars, field_vars>>

\* hash_identifier(identifier)
HashIdentifier ==
    /\ calls < MaxObserved
    /\ \E identifier \in Identifiers, up \in BOOLEAN :
         LET r == hash_identifier_call(key_cache, urandom_count, up, identifier)
         IN  /\ key_cache' = r.cache
             /\ urandom_count' = r.count
             /\ resolved' = resolved \cup r.keys
             /\ last' = [op |-> "hash_identifier", arg |-> identifier, ad |-> None_,
                         res |-> r.res, fetches |-> r.fetches, cache_before |-> key_cache,
                         count_before |-> urandom_count, keys |-> r.keys, log |-> <<>>,
                         why |-> "none", causes |-> last.causes]
    /\ calls' = calls + 1
    /\ UNCHANGED <<ledger_vars, app_vars, key_vault_url, vault_secret, issued, encrypts,
                   caller_vars, field_vars>>

ObserveNext == EncryptLogged \/ DecryptLogged \/ HashIdentifier

SpecObserve == ObserveInit /\ [][ObserveNext]_vars

----------------------------------------------------------------------------
(* Claims about what the engine shows, under SpecObserve *)

\* the lowercase hexadecimal text of the SHA-256 digest of the identifier's
\* UTF-8 bytes
DigestText(identifier) ==
    [k |-> "hex", v |-> [k |-> "sha256", v |-> [k |-> "utf8", v |-> identifier]]]

\* C24: hash_identifier is a function of its argument alone: on any engine and
\* in any key-cache state it returns the hexadecimal SHA-256 digest of the
\* identifier, 64 characters that differ from the identifier, and the call
\* neither fetches nor draws nor changes the key.
C24_HashOfArgumentAlone ==
    last.op = "hash_identifier" =>
        /\ last.res = Ok(DigestText(last.arg))
        /\ py_len(last.res.v) = 64
        /\ last.res.v # last.arg
        /\ last.fetches = 0 /\ last.keys = {}
        /\ key_cache = last.cache_before
        /\ urandom_count = last.count_before

\* C24 witness: an identifier was hashed on an engine whose key was cached by
\* an earlier call, and on that engine the cache is as it was
C24_Witness ==
    /\ last.op = "hash_identifier" /\ last.arg = Lit("PATIENT-12345")
    /\ last.res.k = "ok"
    /\ Truthy(last.cache_before) /\ key_cache = last.cache_before
    /\ encrypts > 0

\* what a decrypt() call showed: what it gave its caller and the record it
\* logged about it
Shown == [res |-> last.res, record |-> last.log[Len(last.log)]]

\* what a failed tag verification shows
TagFailureShown ==
    [res |-> Raise("InvalidTag"),
     record |-> [level |-> "error", msg |-> "Decryption failed", kw |-> [error |-> Lit("")]]]

TagFailureCauses == {"tampered", "wrong_key", "aad_mismatch"}

\* C21: a decrypt call that fails tag verification shows the same failure
\* whether the envelope was tampered with, the key is not the sealing key or
\* the associated data differ: runs that differ only in the cause show the
\* caller one and the same exception and log one and the same record.
C21_CauseNotShown ==
    (last.op = "decrypt" /\ last.why \in TagFailureCauses) => Shown = TagFailureShown

\* C21 witness: on one engine, decrypt has failed for each of the three causes
C21_Witness ==
    /\ last.op = "decrypt" /\ last.why = "aad_mismatch"
    /\ TagFailureCauses \subseteq last.causes
    /\ Truthy(key_cache)

\* the plaintext a call handled: what encrypt was given, what decrypt
\* returned or, when it failed, what the envelope it was given holds
Handled ==
    IF last.op = "encrypt" THEN {last.arg}
    ELSE IF last.res.k = "ok" THEN {last.res.v}
    ELSE {i.pt : i \in {j \in issued : j.env = last.arg}}

\* the record carries the text nowhere: not as its message and in no field
\* (data_length is a number and has_aad a boolean)
Without(rec, text) ==
    /\ rec.msg # text.v
    /\ \A n \in DOMAIN rec.kw \ {"data_length", "has_aad"} : rec.kw[n] # text

----------------------------------------------------------------------------
(* SpecPhiTrail: a caller that holds a patient's identifier hashes it and   *)
(* records the access with log_phi_access, on a logger of any configuration *)

Patients == {Lit("PATIENT-12345"), Lit("PATIENT-67890")}

TrailActions == {Chars(<<"v", "i", "e", "w">>), Chars(<<"e", "x", "p", "o", "r", "t">>)}

\* the arguments of log_phi_access for an access to the patient's record:
\* patient_id_hash is "Hashed patient identifier" (audit.py:229)
PhiTrailArgs(patient, action, res) ==
    [user_id |-> Lit("dr_smith"), patient_id_hash |-> hash_identifier(patient),
     action |-> action, resource_type |-> Lit("encounter"),
     resource_id |-> Lit("enc_abcdef123456"), result |-> res,
     ip_address |-> None_, metadata |-> None_]

PhiTrailInit ==
    LoggerInit /\ EngineIdle /\ CallersIdle /\ last = NoLast /\ FieldsIdle /\ AppIdle

LogPhiAccessHashed(c) ==
    \E patient \in Patients, action \in TrailActions, res \in PhiResults, now \in ApiClock :
        LET a == PhiTrailArgs(patient, action, res)
        IN  BeginBuilt(c, "log_phi_access", a, phi_access_event(a, urandom_count, now))

PhiTrailNext == LogPhiAccessHashed(1) \/ LogStep(1)

SpecPhiTrail == PhiTrailInit /\ [][PhiTrailNext]_vars

\* the local sink holds the entry of the call's event, with the event type of
\* the action, the user and the outcome the caller passed
LocalEntryOf(c) ==
    \E rec \in sink :
        /\ rec.msg = "audit_event"
        /\ rec.kw.event_id = lg_event[c].event_id
        /\ rec.kw.event_type = Lit(ExpectedPhiType(lg_entry[c].args.action).v)
        /\ rec.kw.user_id = Lit("dr_smith")
        /\ rec.kw.result = lg_entry[c].args.result

\* no output of the ledger carries the text: no record handed to the local
\* logger, no object name, no field of a stored event, no metadata value
NowhereInLedger(text) ==
    /\ \A rec \in sink : Without(rec, text)
    /\ \A c \in Loggers : \A i \in Steps(c) :
          IF lg_trace[c][i].op = "upload" THEN lg_trace[c][i].what # text
          ELSE Without(lg_trace[c][i].what, text)
    /\ \A b \in blobs :
          /\ b.name # text
          /\ \A f \in DOMAIN b.content.v : b.content.v[f] # text
          /\ \A n \in DOMAIN b.metadata : b.metadata[n] # text

\* the stored events carry the hash of a patient identifier
HashStored ==
    \A b \in blobs : b.content.v.patient_id_hash \in {DigestText(p) : p \in Patients}

\* C23 as stated: emitting a PHI access audit event produces a local log entry
\* with the event type, the user id and the outcome, and the raw patient
\* identifier appears in no output of the ledger, only its hash.
\* Violated: a logger made with local_backup off stores the event and returns
\* without a local entry.
C23_LocalEntryAndHashOnly ==
    /\ \A c \in Loggers : (Returned(c) /\ InCall(c, "log_phi_access")) => LocalEntryOf(c)
    /\ \A p \in Patients : NowhereInLedger(p)
    /\ HashStored

\* C23 amended: on a logger with local logging on, emitting a PHI access audit
\* event produces a local log entry with the event type, the user id and the
\* outcome; on every logger the raw patient identifier appears in no output of
\* the ledger, only its hash.
C23_LocalEntryWhenEnabled ==
    /\ \A c \in Loggers :
          (local_backup /\ Returned(c) /\ InCall(c, "log_phi_access")) => LocalEntryOf(c)
    /\ \A p \in Patients : NowhereInLedger(p)
    /\ HashStored

\* C23 witness: the view of a patient's record by dr_smith was entered locally
\* and stored, the object carrying the identifier's hash
C23_Witness ==
    /\ Returned(1) /\ InCall(1, "log_phi_access") /\ local_backup
    /\ LocalEntryOf(1)
    /\ \E rec \in sink : rec.kw.event_type = Lit("phi_view") /\ rec.kw.result = Lit("success")
    /\ \E b \in lg_made[1] : b.content.v.patient_id_hash = DigestText(Lit("PATIENT-12345"))

----------------------------------------------------------------------------
(* security/audit.py, lines 324-348: the process-wide audit logger handle   *)

\* most calls of get_audit_logger and initialize_audit_logger in one run
MaxHandleCalls == 6

\* what main.py passes on startup (lines 65-67): the configured account URL,
\* or None when audit logging is disabled; a URL the storage client refuses
StorageUrls == {None_, Lit(""), Lit("https://acct.blob.core.windows.net"), Lit("acct")}

\* BlobServiceClient(account_url=...) refuses a URL without a scheme and host
UrlRefused(url) == url = Lit("acct")

\* AuditLogger(storage_account_url=url), lines 116-147: the n-th object made
AuditLogger(storage_account_url, n) ==
    [id |-> n, local_backup |-> TRUE,
     container_client |-> IF Truthy(storage_account_url) THEN TheContainerClient ELSE None_]

\* a get_audit_logger that makes a logger on every call
get_audit_logger_fresh(handle, made) ==
    LET new == AuditLogger(None_, made + 1)
    IN  [res |-> Ok(new), handle |-> new, made |-> made + 1]

\* get_audit_logger(), lines 328-333
get_audit_logger(handle, made) ==
    IF handle = None_
    THEN LET new == AuditLogger(None_, made + 1)
         IN  [res |-> Ok(new), handle |-> new, made |-> made + 1]
    ELSE [res |-> Ok(handle), handle |-> handle, made |-> made]

\* initialize_audit_logger(storage_account_url), lines 336-348
initialize_audit_logger(handle, made, storage_account_url) ==
    IF Truthy(storage_account_url) /\ UrlRefused(storage_account_url)
    THEN [res |-> Raise("ValueError"), handle |-> handle, made |-> made]
    ELSE LET new == AuditLogger(storage_account_url, made + 1)
         IN  [res |-> Ok(new), handle |-> new, made |-> made + 1]

HandleOthersUntouched ==
    UNCHANGED <<engine_vars, history_vars, caller_vars, last, field_vars, ledger_vars, auth_vars>>

GetAuditLogger ==
    /\ gl_last.calls < MaxHandleCalls
    /\ LET r == get_audit_logger(_audit_logger, loggers_made)
       IN  /\ _audit_logger' = r.handle
           /\ loggers_made' = r.made
           /\ gl_last' = [op |-> "get_audit_logger", url |-> None_, res |-> r.res,
                          before |-> _audit_logger, made_before |-> loggers_made,
                          initialized |-> gl_last.initialized,
                          calls |-> gl_last.calls + 1]
    /\ HandleOthersUntouched

InitializeAuditLogger ==
    /\ gl_last.calls < MaxHandleCalls
    /\ \E url \in StorageUrls :
         LET r == initialize_audit_logger(_audit_logger, loggers_made, url)
         IN  /\ _audit_logger' = r.handle
             /\ loggers_made' = r.made
             /\ gl_last' = [op |-> "initialize_audit_logger", url |-> url, res |-> r.res,
                            before |-> _audit_logger, made_before |-> loggers_made,
                            initialized |-> IF r.res.k = "ok" THEN r.res.v
                                            ELSE gl_last.initialized,
                            calls |-> gl_last.calls + 1]
    /\ HandleOthersUntouched

HandleInit ==
    EngineIdle /\ CallersIdle /\ last = NoLast /\ FieldsIdle /\ LedgerIdle /\ AppIdle

HandleNext == GetAuditLogger \/ InitializeAuditLogger

SpecHandle == HandleInit /\ [][HandleNext]_vars

\* the logger get_audit_logger makes when there is none
LocalOnly(logger, n) ==
    logger = [id |-> n, local_backup |-> TRUE, container_client |-> None_]

\* C28: get_audit_logger creates a local-only logger on first use when none
\* was initialized and otherwise returns the existing instance and leaves the
\* handle as it is; after initialize_audit_logger(url) every later
\* get_audit_logger call returns exactly the instance that call created, until
\* the next initialize_audit_logger.
C28_OneHandle ==
    /\ gl_last.op = "get_audit_logger" =>
          /\ gl_last.res.k = "ok" /\ gl_last.res.v = _audit_logger
          /\ IF gl_last.before = None_
             THEN LocalOnly(gl_last.res.v, gl_last.made_before + 1)
                  /\ loggers_made = gl_last.made_before + 1
             ELSE gl_last.res.v = gl_last.before /\ loggers_made = gl_last.made_before
          /\ gl_last.initialized # None_ => gl_last.res.v = gl_last.initialized
    /\ (gl_last.op = "initialize_audit_logger" /\ gl_last.res.k = "ok") =>
          /\ gl_last.res.v = _audit_logger
          /\ gl_last.res.v.id = gl_last.made_before + 1
          /\ gl_last.res.v.container_client =
                 (IF gl_last.url \in {None_, Lit("")} THEN None_ ELSE TheContainerClient)
    /\ gl_last.initialized # None_ => _audit_logger = gl_last.initialized

\* C28 witness: a logger made by get_audit_logger on first use was replaced by
\* initialize_audit_logger with a storage URL, and a later get_audit_logger
\* returned the initialized one
C28_Witness ==
    /\ gl_last.op = "get_audit_logger"
    /\ gl_last.initialized # None_
    /\ gl_last.res.v = gl_last.initialized
    /\ gl_last.res.v.id = 2
    /\ gl_last.res.v.container_client = TheContainerClient

----------------------------------------------------------------------------
(* src/api/v1/endpoints/auth.py: signup, login, logout and /me over the      *)
(* users table and the in-memory session store. Each handler is an async    *)
(* function without an await, so it runs from entry to response as one step. *)
(* Time is in minutes.                                                      *)

\* login(), line 125: failed attempts at which the account is locked
LockThreshold == 5
\* login(), line 126: timedelta(minutes=15)
LockMinutes == 15
\* signup() line 92 and login() line 144: timedelta(days=7)
SessionMinutes == 10080

\* most requests of one run of the lockout scenario, and its latest clock reading
MaxLogins == 9
MaxLockClock == 30
\* most requests of one run of the session scenario, and its latest clock reading
MaxRequests == 5
MaxSessionClock == 10081

Usernames == {"alice", "bob"}
Passwords == {"pw1", "pw2"}
Emails == {"a@clinic.org", "b@clinic.org"}

\* bcrypt.hashpw(password, gensalt()) and bcrypt.checkpw(password, hashed)
hash_password(password) == [k |-> "bcrypt", v |-> password]
verify_password(password, hashed) == hashed.v = password

\* secrets.token_urlsafe(32), secrets.token_hex(8): the n-th value handed out
create_session_token(n) == [k |-> "token", v |-> n + 1]
user_id(n) == [k |-> "usr", v |-> n + 1]

\* a token no handler issued
ForgedToken == [k |-> "token", v |-> 0]

\* an HTTP response: 200 or the HTTPException raised
Response(status) == status

\* a row of the users table as signup writes it, lines 73-83
NewUser(id, email, password) ==
    [id |-> id, email |-> email, password_hash |-> hash_password(password),
     is_active |-> TRUE, failed_login_attempts |-> 0, locked_until |-> None_,
     last_login |-> None_]

\* a sessions entry, lines 90-93 and 142-145
NewSession(id, t) == [user_id |-> id, expires_at |-> t + SessionMinutes]

\* dict[key] = value
dict_set(d, k, value) == [x \in DOMAIN d \cup {k} |-> IF x = k THEN value ELSE d[x]]
\* del dict[key]
dict_del(d, k) == [x \in DOMAIN d \ {k} |-> d[x]]

\* signup(), lines 56-104
signup(tbl, sess, t, made, username, email, password) ==
    IF username \in DOMAIN tbl
    THEN [status |-> Response(400), users |-> tbl, sessions |-> sess, made |-> made,
          token |-> None_]
    ELSE IF \E u \in DOMAIN tbl : tbl[u].email = email
    THEN [status |-> Response(400), users |-> tbl, sessions |-> sess, made |-> made,
          token |-> None_]
    ELSE LET id == user_id(made)
             session_token == create_session_token(made + 1)
         IN  [status |-> Response(200),
              users |-> dict_set(tbl, username, NewUser(id, email, password)),
              sessions |-> dict_set(sess, session_token, NewSession(id, t)),
              made |-> made + 2, token |-> session_token]

\* a login() that does not look at locked_until
login_unlocked(tbl, sess, t, made, username, password) ==
    IF username \notin DOMAIN tbl
    THEN [status |-> Response(401), users |-> tbl, sessions |-> sess, made |-> made,
          token |-> None_]
    ELSE LET user == tbl[username]
         IN  IF ~verify_password(password, user.password_hash)
             THEN LET n == user.failed_login_attempts + 1
                      failed == [user EXCEPT !.failed_login_attempts = n,
                                             !.locked_until = IF n >= LockThreshold
                                                              THEN PyInt(t + LockMinutes)
                                                              ELSE @]
                  IN  [status |-> Response(401), users |-> dict_set(tbl, username, failed),
                       sessions |-> sess, made |-> made, token |-> None_]
             ELSE IF ~user.is_active
             THEN [status |-> Response(403), users |-> tbl, sessions |-> sess, made |-> made,
                   token |-> None_]
             ELSE LET session_token == create_session_token(made)
                      ok == [user EXCEPT !.failed_login_attempts = 0, !.locked_until = None_,
                                         !.last_login = PyInt(t)]
                  IN  [status |-> Response(200), users |-> dict_set(tbl, username, ok),
                       sessions |-> dict_set(sess, session_token, NewSession(user.id, t)),
                       made |-> made + 1, token |-> session_token]

\* login(), lines 106-156
login(tbl, sess, t, made, username, password) ==
    IF username \notin DOMAIN tbl
    THEN [status |-> Response(401), users |-> tbl, sessions |-> sess, made |-> made,
          token |-> None_]
    ELSE LET user == tbl[username]
         IN  IF user.locked_until # None_ /\ user.locked_until.v > t
             THEN [status |-> Response(423), users |-> tbl, sessions |-> sess,
                   made |-> made, token |-> None_]
             ELSE IF ~verify_password(password, user.password_hash)
             THEN LET n == user.failed_login_attempts + 1
                      failed == [user EXCEPT !.failed_login_attempts = n,
                                             !.locked_until = IF n >= LockThreshold
                                                              THEN PyInt(t + LockMinutes)
                                                              ELSE @]
                  IN  [status |-> Response(401), users |-> dict_set(tbl, username, failed),
                       sessions |-> sess, made |-> made, token |-> None_]
             ELSE IF ~user.is_active
             THEN [status |-> Response(403), users |-> tbl, sessions |-> sess, made |-> made,
                   token |-> None_]
             ELSE LET session_token == create_session_token(made)
                      ok == [user EXCEPT !.failed_login_attempts = 0, !.locked_until = None_,
                                         !.last_login = PyInt(t)]
                  IN  [status |-> Response(200), users |-> dict_set(tbl, username, ok),
                       sessions |-> dict_set(sess, session_token, NewSession(user.id, t)),
                       made |-> made + 1, token |-> session_token]

\* logout(), lines 158-168
logout(sess, session_token) ==
    IF session_token \in DOMAIN sess
    THEN [status |-> Response(200), sessions |-> dict_del(sess, session_token)]
    ELSE [status |-> Response(200), sessions |-> sess]

\* a /me that does not look at expires_at
get_current_user_unexpiring(tbl, sess, t, session_token) ==
    IF session_token \notin DOMAIN sess
    THEN [status |-> Response(401), sessions |-> sess]
    ELSE IF ~\E u \in DOMAIN tbl : tbl[u].id = sess[session_token].user_id
    THEN [status |-> Response(404), sessions |-> sess]
    ELSE [status |-> Response(200), sessions |-> sess]

\* get_current_user(), lines 170-196
get_current_user(tbl, sess, t, session_token) ==
    IF session_token \notin DOMAIN sess
    THEN [status |-> Response(401), sessions |-> sess]
    ELSE LET session == sess[session_token]
         IN  IF session.expires_at < t
             THEN [status |-> Response(401), sessions |-> dict_del(sess, session_token)]
             ELSE IF ~\E u \in DOMAIN tbl : tbl[u].id = session.user_id
             THEN [status |-> Response(404), sessions |-> sess]
             ELSE [status |-> Response(200), sessions |-> sess]

AuthOthersUntouched ==
    UNCHANGED <<engine_vars, history_vars, caller_vars, last, field_vars, ledger_vars,
                handle_vars>>

\* what the request found and what it was answered
Served(op, name, password, token, r) ==
    /\ au_calls' = au_calls + 1
    /\ au_last' = [op |-> op, name |-> name, password |-> password, token |-> token,
                   status |-> r.status, at |-> utcnow, users_before |-> users,
                   sessions_before |-> sessions,
                   issued |-> IF op \in {"signup", "login"} THEN r.token ELSE None_]
    /\ au_removed' = au_removed \cup (DOMAIN sessions \ DOMAIN sessions')

\* POST /signup
Signup ==
    /\ \E username \in Usernames, email \in Emails, password \in {"pw1"} :
         LET r == signup(users, sessions, utcnow, tokens_made, username, email, password)
         IN  /\ users' = r.users
             /\ sessions' = r.sessions
             /\ tokens_made' = r.made
             /\ au_issued' = IF r.token = None_ THEN au_issued ELSE au_issued \cup {r.token}
             /\ au_wrong' = IF r.status = 200 THEN dict_set(au_wrong, username, 0) ELSE au_wrong
             /\ Served("signup", username, password, None_, r)
    /\ UNCHANGED utcnow
    /\ AuthOthersUntouched

\* POST /login
Login ==
    /\ \E username \in Usernames, password \in Passwords :
         LET r == login(users, sessions, utcnow, tokens_made, username, password)
         IN  /\ users' = r.users
             /\ sessions' = r.sessions
             /\ tokens_made' = r.made
             /\ au_issued' = IF r.token = None_ THEN au_issued ELSE au_issued \cup {r.token}
             /\ au_wrong' =
                  IF username \notin DOMAIN users THEN au_wrong
                  ELSE IF r.status = 200 THEN dict_set(au_wrong, username, 0)
                  ELSE IF ~verify_password(password, users[username].password_hash)
                  THEN dict_set(au_wrong, username, au_wrong[username] + 1)
                  ELSE au_wrong
             /\ Served("login", username, password, None_, r)
    /\ UNCHANGED utcnow
    /\ AuthOthersUntouched

\* POST /logout with a token some handler issued, or a forged one
Logout ==
    /\ \E session_token \in au_issued \cup {ForgedToken} :
         LET r == logout(sessions, session_token)
         IN  /\ sessions' = r.sessions
             /\ Served("logout", "", "", session_token, r)
    /\ UNCHANGED <<users, utcnow, tokens_made, au_issued, au_wrong>>
    /\ AuthOthersUntouched

\* GET /me with a token some handler issued, or a forged one
Me ==
    /\ \E session_token \in au_issued \cup {ForgedToken} :
         LET r == get_current_user(users, sessions, utcnow, session_token)
         IN  /\ sessions' = r.sessions
             /\ Served("me", "", "", session_token, r)
    /\ UNCHANGED <<users, utcnow, tokens_made, au_issued, au_wrong>>
    /\ AuthOthersUntouched

\* time passes
Tick(minutes, latest) ==
    /\ utcnow + minutes <= latest
    /\ utcnow' = utcnow + minutes
    /\ UNCHANGED <<users, sessions, tokens_made, au_calls, au_last, au_issued, au_removed,
                   au_wrong>>
    /\ AuthOthersUntouched

AppOthersIdle == EngineIdle /\ CallersIdle /\ last = NoLast /\ FieldsIdle /\ LedgerIdle /\ HandleIdle

----------------------------------------------------------------------------
(* SpecLockout: logins, right and wrong, for accounts that exist, while     *)
(* time passes                                                               *)

\* the table after alice signed up, and bob's account was deactivated
SeededUsers ==
    [u \in Usernames |->
        [NewUser([k |-> "usr", v |-> IF u = "alice" THEN -1 ELSE -2],
                 IF u = "alice" THEN "a@clinic.org" ELSE "b@clinic.org", "pw1")
         EXCEPT !.is_active = (u = "alice")]]

LockoutInit ==
    /\ users = SeededUsers
    /\ sessions = <<>>
    /\ utcnow = 0
    /\ tokens_made = 0
    /\ au_calls = 0
    /\ au_last = NoRequest
    /\ au_issued = {}
    /\ au_removed = {}
    /\ au_wrong = [u \in Usernames |-> 0]
    /\ AppOthersIdle

LockoutNext ==
    \/ au_calls < MaxLogins /\ Login
    \/ Tick(LockMinutes - 1, MaxLockClock)
    \/ Tick(LockMinutes, MaxLockClock)

SpecLockout == LockoutInit /\ [][LockoutNext]_vars

----------------------------------------------------------------------------
(* SpecSessions: accounts are made, sessions opened, presented, closed and  *)
(* left to expire                                                            *)

SessionsInit == AuthIdle /\ AppOthersIdle

SessionsNext ==
    \/ au_calls < MaxRequests /\ (Signup \/ Login \/ Logout \/ Me)
    \/ Tick(SessionMinutes, MaxSessionClock)
    \/ Tick(SessionMinutes + 1, MaxSessionClock)

SpecSessions == SessionsInit /\ [][SessionsNext]_vars

----------------------------------------------------------------------------
(* Claims about the authentication endpoints *)

\* the last request was a login for an account that exists
LoginServed == au_last.op = "login" /\ au_last.name \in DOMAIN au_last.users_before

RowBefore == au_last.users_before[au_last.name]
RowAfter == users[au_last.name]

\* the password of the request is not the account's
WrongPassword == RowBefore.password_hash # [k |-> "bcrypt", v |-> au_last.password]

\* the account was locked when the request arrived
WasLocked == RowBefore.locked_until # None_ /\ RowBefore.locked_until.v > au_last.at

\* C29: the fifth consecutive wrong-password login for an existing account
\* sets locked_until 15 minutes ahead; while locked_until is in the future
\* every login for the account, even with the correct password, is rejected
\* without creating a session and without changing failed_login_attempts; a
\* successful login resets failed_login_attempts to 0 and clears locked_until.
C29_Lockout ==
    LoginServed =>
        /\ (WrongPassword /\ au_wrong[au_last.name] = 5) =>
               RowAfter.locked_until = PyInt(au_last.at + 15)
        /\ WasLocked =>
               /\ au_last.status = 423
               /\ au_last.issued = None_ /\ sessions = au_last.sessions_before
               /\ RowAfter.failed_login_attempts = RowBefore.failed_login_attempts
               /\ RowAfter.locked_until = RowBefore.locked_until
        /\ au_last.status = 200 =>
               /\ RowAfter.failed_login_attempts = 0
               /\ RowAfter.locked_until = None_
               /\ au_last.issued \in DOMAIN sessions

\* C29 witness: after five wrong passwords in a row, alice's correct password
\* was refused one minute before the lock ran out
C29_Witness ==
    /\ LoginServed /\ au_last.name = "alice" /\ ~WrongPassword
    /\ au_last.status = 423
    /\ au_wrong["alice"] = 5 /\ users["alice"].failed_login_attempts = 5
    /\ users["alice"].locked_until = PyInt(au_last.at + 1)
    /\ sessions = <<>>

\* alice logged in after the lock had run out, and her count was reset
C29_WitnessReset ==
    /\ LoginServed /\ au_last.name = "alice" /\ au_last.status = 200
    /\ RowBefore.failed_login_attempts = 5 /\ RowBefore.locked_until = PyInt(au_last.at)
    /\ users["alice"].failed_login_attempts = 0 /\ users["alice"].locked_until = None_

\* /me accepted the token: it went on to look the user up
MeAccepted == au_last.op = "me" /\ au_last.status \in {200, 404}

\* C30: /me accepts a token only if signup or login issued it, it has not been
\* removed by logout, and its expiry has not passed; once logout removes a
\* token or /me finds it expired and deletes it, the token is never accepted
\* again; and logout with an unknown token changes no session.
C30_SessionValidity ==
    /\ MeAccepted =>
          /\ au_last.token \in au_issued
          /\ au_last.token \notin au_removed
          /\ au_last.token \in DOMAIN au_last.sessions_before
          /\ au_last.sessions_before[au_last.token].expires_at >= au_last.at
          /\ sessions = au_last.sessions_before
    /\ \A tok \in au_removed : tok \in au_issued /\ tok \notin DOMAIN sessions
    /\ (au_last.op = "me" /\ au_last.token \in DOMAIN au_last.sessions_before
        /\ au_last.sessions_before[au_last.token].expires_at < au_last.at) =>
          /\ au_last.status = 401
          /\ au_last.token \in au_removed
    /\ au_last.op = "logout" =>
          /\ au_last.token \in DOMAIN au_last.sessions_before => au_last.token \in au_removed
          /\ \A tok \in DOMAIN au_last.sessions_before \ {au_last.token} :
                tok \in DOMAIN sessions /\ sessions[tok] = au_last.sessions_before[tok]
          /\ au_last.token \notin DOMAIN au_last.sessions_before =>
                sessions = au_last.sessions_before

\* C30 witness: a token issued at signup expired, /me deleted it, and the token
\* was refused when presented again while another session stayed open
C30_Witness ==
    /\ au_last.op = "me" /\ au_last.status = 401
    /\ au_last.token \in au_issued /\ au_last.token \in au_removed
    /\ au_last.token \notin DOMAIN au_last.sessions_before
    /\ au_last.at > 10080
    /\ DOMAIN sessions # {}

====
